---- MODULE Spec2Model ----
(***************************************************************************)
(* The interactive terminal application engine of pali-terminal (patui):   *)
(* the App state of src/tui/app.rs, the InputForm of src/tui/components.rs *)
(* and the event loop of src/bin/patui.rs.                                 *)
(*                                                                         *)
(* Conventions.  A Rust String is a sequence of one-character strings.     *)
(* Option<T> is a sequence of length 0 (None) or 1 (Some).  Indices into   *)
(* Vec are 0-based as in the source; At(v, i) reads v[i].  Every `&mut     *)
(* self` method is an operator from the App record to the App record; an   *)
(* async method that awaits the remote service is split at its await into  *)
(* a *_begin operator (the code before the await, which yields the call)   *)
(* and a *_resume operator (the code after it, given the call's result).   *)
(* The Todo fields created_at / updated_at carry the server's logical      *)
(* clock.                                                                  *)
(***************************************************************************)
EXTENDS Integers, Sequences, FiniteSets, TLC

VARIABLES
    app,        \* the App struct (src/tui/app.rs:26-46)
    pending,    \* remote calls issued and not yet resolved (futures awaited)
    pc,         \* position of run_app (src/bin/patui.rs:51-91)
    frame,      \* what the last terminal.draw observed (ui::render)
    clock,      \* the remote service's logical time (ids and timestamps)
    utc_offset, \* offset of chrono::Local from UTC, in seconds
    widget      \* a TodoListWidget (src/tui/components.rs:14-17)

vars == <<app, pending, pc, frame, clock, utc_offset, widget>>

----------------------------------------------------------------------------
(* Bounds of the model *)

MaxTitleLen == 1
MaxDescLen == 0
MaxDueLen == 1
MaxQueryLen == 1
MaxClock == 1
MaxTicks == 2
MaxAppTicks == 1
MaxUnitTodos == 2

----------------------------------------------------------------------------
(* Option and Vec helpers *)

None == <<>>
Some(x) == <<x>>
IsSome(o) == o # <<>>
Unwrap(o) == o[1]

At(v, i) == v[i + 1]
InRange(v, i) == i >= 0 /\ i < Len(v)

\* Vec::remove(index)
VecRemove(v, i) == SubSeq(v, 1, i) \o SubSeq(v, i + 2, Len(v))

\* Iterator::position over a Vec<Todo> by id
PositionById(v, id) ==
    IF \E i \in 1..Len(v) : v[i].id = id
    THEN Some((CHOOSE i \in 1..Len(v) :
                  v[i].id = id /\ \A j \in 1..(i - 1) : v[j].id # id) - 1)
    ELSE None

----------------------------------------------------------------------------
(* Strings *)

IsWhitespace(c) == c = " "

\* char::to_lowercase on the letters of the model's alphabet
LowerChar(c) ==
    CASE c = "A" -> "a"
      [] c = "B" -> "b"
      [] OTHER -> c

\* str::to_lowercase
to_lowercase(s) == [i \in 1..Len(s) |-> LowerChar(s[i])]

\* str::contains(&needle)
contains(s, needle) ==
    \E i \in 0..(Len(s) - Len(needle)) : SubSeq(s, i + 1, i + Len(needle)) = needle

RECURSIVE trim_start(_)
trim_start(s) ==
    IF s # <<>> /\ IsWhitespace(Head(s)) THEN trim_start(Tail(s)) ELSE s

RECURSIVE trim_end(_)
trim_end(s) ==
    IF s # <<>> /\ IsWhitespace(s[Len(s)]) THEN trim_end(SubSeq(s, 1, Len(s) - 1)) ELSE s

\* str::trim
trim(s) == trim_end(trim_start(s))

\* String::pop
pop(s) == IF s = <<>> THEN s ELSE SubSeq(s, 1, Len(s) - 1)

\* String::push
push(s, c) == Append(s, c)

\* a String as format! writes it with {}: its characters in a row
RECURSIVE Display(_)
Display(s) == IF s = <<>> THEN "" ELSE Head(s) \o Display(Tail(s))

----------------------------------------------------------------------------
(* chrono: the calendar, NaiveDateTime::parse_from_str and format *)

DigitChars == {"0", "1", "2", "3", "4", "5", "6", "7", "8", "9"}
DigitSeq == <<"0", "1", "2", "3", "4", "5", "6", "7", "8", "9">>
DigitVal(c) == (CHOOSE i \in 1..10 : DigitSeq[i] = c) - 1

SecondsPerDay == 86400

IsLeapYear(y) == (y % 4 = 0 /\ y % 100 # 0) \/ y % 400 = 0

DaysInMonth(y, m) ==
    CASE m \in {1, 3, 5, 7, 8, 10, 12} -> 31
      [] m \in {4, 6, 9, 11} -> 30
      [] OTHER -> IF IsLeapYear(y) THEN 29 ELSE 28

\* days since 1970-01-01 of a proleptic Gregorian date
DaysFromCivil(y, m, d) ==
    LET yy == IF m <= 2 THEN y - 1 ELSE y
        era == yy \div 400
        yoe == yy - era * 400
        mp == (m + 9) % 12
        doy == (153 * mp + 2) \div 5 + d - 1
        doe == yoe * 365 + yoe \div 4 - yoe \div 100 + doy
    IN  era * 146097 + doe - 719468

\* the date of a day number: [year, month, day]
CivilFromDays(z) ==
    LET zz == z + 719468
        era == zz \div 146097
        doe == zz - era * 146097
        yoe == (doe - doe \div 1460 + doe \div 36524 - doe \div 146096) \div 365
        doy == doe - (365 * yoe + yoe \div 4 - yoe \div 100)
        mp == (5 * doy + 2) \div 153
        d == doy - (153 * mp + 2) \div 5 + 1
        m == IF mp < 10 THEN mp + 3 ELSE mp - 9
    IN  [year |-> IF m <= 2 THEN yoe + era * 400 + 1 ELSE yoe + era * 400,
         month |-> m, day |-> d]

\* format::scan::number(s, min, max): the leading run of at most max digits
LeadingDigits(s, max) ==
    LET lim == IF Len(s) < max THEN Len(s) ELSE max
    IN  CHOOSE n \in 0..lim :
            /\ \A i \in 1..n : s[i] \in DigitChars
            /\ (n = lim \/ s[n + 1] \notin DigitChars)

RECURSIVE DecValue(_)
DecValue(s) ==
    IF s = <<>> THEN 0 ELSE 10 * DecValue(SubSeq(s, 1, Len(s) - 1)) + DigitVal(s[Len(s)])

scan_number(s, min, max) ==
    LET n == LeadingDigits(s, max)
    IN  IF n < min
        THEN [ok |-> FALSE, value |-> 0, rest |-> s]
        ELSE [ok |-> TRUE, value |-> DecValue(SubSeq(s, 1, n)), rest |-> SubSeq(s, n + 1, Len(s))]

\* the items of the format string "%Y-%m-%d %H:%M:%S"
NumItem(name, width, signed) == [t |-> "num", name |-> name, width |-> width, signed |-> signed, c |-> ""]
LitItem(c) == [t |-> "lit", name |-> "", width |-> 0, signed |-> FALSE, c |-> c]
SpaceItem == [t |-> "space", name |-> "", width |-> 0, signed |-> FALSE, c |-> " "]

DateTimeFormat ==
    << NumItem("year", 4, TRUE), LitItem("-"), NumItem("month", 2, FALSE), LitItem("-"),
       NumItem("day", 2, FALSE), SpaceItem, NumItem("hour", 2, FALSE), LitItem(":"),
       NumItem("minute", 2, FALSE), LitItem(":"), NumItem("second", 2, FALSE) >>

ParseFail(st) == [st EXCEPT !.ok = FALSE]

\* Parsed::set_month, set_day, set_hour, set_minute and set_second refuse a
\* value outside the range of the field (OUT_OF_RANGE); set_year takes any
FieldInRange(name, value) ==
    CASE name = "month" -> value \in 1..12
      [] name = "day" -> value \in 1..31
      [] name = "hour" -> value \in 0..23
      [] name = "minute" -> value \in 0..59
      [] name = "second" -> value \in 0..60
      [] OTHER -> TRUE

\* one step of format::parse::parse_internal
ParseItem(st, item) ==
    CASE item.t = "lit" ->
            IF st.s = <<>> \/ Head(st.s) # item.c
            THEN ParseFail(st)
            ELSE [st EXCEPT !.s = Tail(st.s)]
      [] item.t = "space" -> [st EXCEPT !.s = trim_start(st.s)]
      [] OTHER ->
            LET s1 == trim_start(st.s)
                neg == item.signed /\ s1 # <<>> /\ Head(s1) = "-"
                pos == item.signed /\ s1 # <<>> /\ Head(s1) = "+"
                r == IF neg \/ pos
                     THEN scan_number(Tail(s1), 1, Len(s1))
                     ELSE scan_number(s1, 1, item.width)
            IN  IF ~r.ok \/ ~FieldInRange(item.name, IF neg THEN 0 - r.value ELSE r.value)
                THEN ParseFail(st)
                ELSE [st EXCEPT !.s = r.rest,
                                !.f = [st.f EXCEPT ![item.name] = IF neg THEN 0 - r.value ELSE r.value]]

RECURSIVE ParseItems(_, _)
ParseItems(st, items) ==
    IF items = <<>> \/ ~st.ok THEN st ELSE ParseItems(ParseItem(st, Head(items)), Tail(items))

ParsedFields == {"year", "month", "day", "hour", "minute", "second"}

\* Parsed::to_naive_datetime_with_offset followed by .and_utc().timestamp(),
\* on the state the items were parsed into
and_utc_timestamp(st) ==
    LET f == st.f
    IN  IF /\ st.ok
           /\ st.s = <<>>
           /\ f.month \in 1..12
           /\ f.day >= 1 /\ f.day <= DaysInMonth(f.year, f.month)
           /\ f.hour <= 23 /\ f.minute <= 59 /\ f.second <= 60
        THEN Some(DaysFromCivil(f.year, f.month, f.day) * SecondsPerDay
                  + f.hour * 3600 + f.minute * 60
                  + (IF f.second = 60 THEN 59 ELSE f.second))
        ELSE None

\* NaiveDateTime::parse_from_str(s, "%Y-%m-%d %H:%M:%S") followed by
\* .and_utc().timestamp(): Some(timestamp) when the parse succeeds
parse_from_str(s) ==
    and_utc_timestamp(
        ParseItems([ok |-> TRUE, s |-> s, f |-> [n \in ParsedFields |-> 0]], DateTimeFormat))

Pad2(n) == <<DigitSeq[((n \div 10) % 10) + 1], DigitSeq[(n % 10) + 1]>>
Pad4(n) == Pad2(n \div 100) \o Pad2(n % 100)

\* DateTime::from_timestamp(ts, 0).with_timezone(&Local)
\*     .format("%Y-%m-%d %H:%M:%S").to_string(), Local being UTC + offset
format_local(ts, offset) ==
    LET t == ts + offset
        days == t \div SecondsPerDay
        secs == t % SecondsPerDay
        dt == CivilFromDays(days)
    IN  Pad4(dt.year) \o <<"-">> \o Pad2(dt.month) \o <<"-">> \o Pad2(dt.day) \o <<" ">>
        \o Pad2(secs \div 3600) \o <<":">> \o Pad2((secs % 3600) \div 60) \o <<":">> \o Pad2(secs % 60)

----------------------------------------------------------------------------
(* InputForm (src/tui/components.rs) *)

InputFields == {"Title", "Description", "Priority", "DueDate"}

InputForm_new ==
    [title |-> <<>>, description |-> <<>>, priority |-> 2, due_date |-> <<>>,
     current_field |-> "Title"]

next_field(form) ==
    [form EXCEPT !.current_field =
        CASE form.current_field = "Title" -> "Description"
          [] form.current_field = "Description" -> "Priority"
          [] form.current_field = "Priority" -> "DueDate"
          [] OTHER -> "Title"]

\* previous_field that stays on Title instead of wrapping to DueDate (C25
\* depends on the wrap)
previous_field_stops(form) ==
    [form EXCEPT !.current_field =
        CASE form.current_field = "Title" -> "Title"
          [] form.current_field = "Description" -> "Title"
          [] form.current_field = "Priority" -> "Description"
          [] OTHER -> "Priority"]

previous_field(form) ==
    [form EXCEPT !.current_field =
        CASE form.current_field = "Title" -> "DueDate"
          [] form.current_field = "Description" -> "Title"
          [] form.current_field = "Priority" -> "Description"
          [] OTHER -> "Priority"]

\* handle_char that sends the characters of the description to the title
\* (C26 depends on the match on current_field)
handle_char_into_title(form, c) ==
    CASE form.current_field \in {"Title", "Description"} ->
            [form EXCEPT !.title = push(form.title, c)]
      [] form.current_field = "Priority" ->
            IF c \in DigitChars /\ DigitVal(c) \in 1..3
            THEN [form EXCEPT !.priority = DigitVal(c)]
            ELSE form
      [] OTHER ->
            IF c \in DigitChars \/ c = "-" \/ c = ":" \/ c = " "
            THEN [form EXCEPT !.due_date = push(form.due_date, c)]
            ELSE form

\* handle_char that appends any character to the due date (C22 depends on
\* the test of the character)
handle_char_any_due(form, c) ==
    CASE form.current_field = "Title" -> [form EXCEPT !.title = push(form.title, c)]
      [] form.current_field = "Description" -> [form EXCEPT !.description = push(form.description, c)]
      [] form.current_field = "Priority" ->
            IF c \in DigitChars /\ DigitVal(c) \in 1..3
            THEN [form EXCEPT !.priority = DigitVal(c)]
            ELSE form
      [] OTHER -> [form EXCEPT !.due_date = push(form.due_date, c)]

\* handle_char that takes any digit as the priority (C21 depends on the
\* test for 1..=3)
handle_char_any_digit(form, c) ==
    CASE form.current_field = "Title" -> [form EXCEPT !.title = push(form.title, c)]
      [] form.current_field = "Description" -> [form EXCEPT !.description = push(form.description, c)]
      [] form.current_field = "Priority" ->
            IF c \in DigitChars
            THEN [form EXCEPT !.priority = DigitVal(c)]
            ELSE form
      [] OTHER ->
            IF c \in DigitChars \/ c = "-" \/ c = ":" \/ c = " "
            THEN [form EXCEPT !.due_date = push(form.due_date, c)]
            ELSE form

handle_char(form, c) ==
    CASE form.current_field = "Title" -> [form EXCEPT !.title = push(form.title, c)]
      [] form.current_field = "Description" -> [form EXCEPT !.description = push(form.description, c)]
      [] form.current_field = "Priority" ->
            IF c \in DigitChars /\ DigitVal(c) \in 1..3
            THEN [form EXCEPT !.priority = DigitVal(c)]
            ELSE form
      [] OTHER ->
            IF c \in DigitChars \/ c = "-" \/ c = ":" \/ c = " "
            THEN [form EXCEPT !.due_date = push(form.due_date, c)]
            ELSE form

\* handle_backspace that puts the priority back to medium (C27 depends on
\* the empty Priority arm)
handle_backspace_resets_priority(form) ==
    CASE form.current_field = "Title" -> [form EXCEPT !.title = pop(form.title)]
      [] form.current_field = "Description" -> [form EXCEPT !.description = pop(form.description)]
      [] form.current_field = "Priority" -> [form EXCEPT !.priority = 2]
      [] OTHER -> [form EXCEPT !.due_date = pop(form.due_date)]

handle_backspace(form) ==
    CASE form.current_field = "Title" -> [form EXCEPT !.title = pop(form.title)]
      [] form.current_field = "Description" -> [form EXCEPT !.description = pop(form.description)]
      [] form.current_field = "Priority" -> form
      [] OTHER -> [form EXCEPT !.due_date = pop(form.due_date)]

\* clear that leaves the field cursor where it is (C14 depends on the reset)
InputForm_clear_keeps_field(form) ==
    [form EXCEPT !.title = <<>>, !.description = <<>>, !.priority = 2,
                 !.due_date = <<>>]

InputForm_clear(form) ==
    [form EXCEPT !.title = <<>>, !.description = <<>>, !.priority = 2,
                 !.due_date = <<>>, !.current_field = "Title"]

\* is_valid that is content with a description (C23 depends on the title
\* alone being read)
is_valid_any_text(form) == trim(form.title) # <<>> \/ trim(form.description) # <<>>

is_valid(form) == trim(form.title) # <<>>

InvalidDateFormat == "Invalid date format. Use YYYY-MM-DD or YYYY-MM-DD HH:MM:SS"

\* the two attempts of parse_due_date, the datetime first:
\* Result<Option<i64>, String>
first_parsed(datetime, date_only) ==
    IF IsSome(datetime) THEN [ok |-> TRUE, value |-> datetime, err |-> ""]
    ELSE IF IsSome(date_only) THEN [ok |-> TRUE, value |-> date_only, err |-> ""]
    ELSE [ok |-> FALSE, value |-> None, err |-> InvalidDateFormat]

\* Result<Option<i64>, String>
parse_due_date(form) ==
    IF trim(form.due_date) = <<>>
    THEN [ok |-> TRUE, value |-> None, err |-> ""]
    ELSE first_parsed(
             parse_from_str(trim(form.due_date)),
             parse_from_str(trim(form.due_date) \o <<" ", "0", "0", ":", "0", "0", ":", "0", "0">>))

\* to_create_request once `let due_date = self.parse_due_date()?` has run
create_request_with(form, due) ==
        IF ~due.ok
        THEN [ok |-> FALSE, err |-> due.err,
              request |-> [title |-> <<>>, description |-> None, priority |-> None, due_date |-> None]]
        ELSE [ok |-> TRUE, err |-> "",
              request |-> [title |-> trim(form.title),
                           description |-> IF trim(form.description) # <<>>
                                           THEN Some(trim(form.description)) ELSE None,
                           priority |-> Some(form.priority),
                           due_date |-> due.value]]

\* Result<CreateTodoRequest, String>
to_create_request(form) == create_request_with(form, parse_due_date(form))

----------------------------------------------------------------------------
(* App (src/tui/app.rs): construction, messages, filters, navigation *)

AppScreens == {"TodoList", "AddTodo", "EditTodo", "Help", "Settings", "Search", "TodoDetail"}
InputModes == {"Normal", "Editing"}

\* pali_types::Todo
Todo(id, title, description, completed, priority, due_date, created_at, updated_at) ==
    [id |-> id, title |-> title, description |-> description, completed |-> completed,
     priority |-> priority, due_date |-> due_date, created_at |-> created_at,
     updated_at |-> updated_at]

clear_messages(a) == [a EXCEPT !.error_message = None, !.success_message = None]

\* show_error leaving the success message in place (C10 depends on the reset)
show_error_keeps_success(a, message) == [a EXCEPT !.error_message = Some(message)]

show_error(a, message) == [a EXCEPT !.error_message = Some(message), !.success_message = None]

show_success(a, message) == [a EXCEPT !.success_message = Some(message), !.error_message = None]

\* ListState::select together with the assignment to selected_todo
Select(a, sel) == [a EXCEPT !.selected_todo = sel, !.list_state = sel]

\* the closure with the query compared as typed, not lowercased (C7 depends
\* on both sides being lowercased)
FilterKeeps_query_as_typed(a, todo) ==
    IF ~a.show_all_todos /\ todo.completed THEN FALSE
    ELSE IF /\ a.search_query # <<>>
            /\ LET title_match == contains(to_lowercase(todo.title), a.search_query)
                   desc_match == IF IsSome(todo.description)
                                 THEN contains(to_lowercase(Unwrap(todo.description)), a.search_query)
                                 ELSE FALSE
               IN  ~title_match /\ ~desc_match
         THEN FALSE
    ELSE IF IsSome(a.filter_priority) /\ todo.priority # Unwrap(a.filter_priority) THEN FALSE
    ELSE TRUE

\* the closure passed to filter() in apply_filters
FilterKeeps(a, todo) ==
    IF ~a.show_all_todos /\ todo.completed THEN FALSE
    ELSE IF /\ a.search_query # <<>>
            /\ LET query_lower == to_lowercase(a.search_query)
                   title_match == contains(to_lowercase(todo.title), query_lower)
                   desc_match == IF IsSome(todo.description)
                                 THEN contains(to_lowercase(Unwrap(todo.description)), query_lower)
                                 ELSE FALSE
               IN  ~title_match /\ ~desc_match
         THEN FALSE
    ELSE IF IsSome(a.filter_priority) /\ todo.priority # Unwrap(a.filter_priority) THEN FALSE
    ELSE TRUE

\* apply_filters without its reset of the selection (C11 depends on it)
apply_filters_keeps_selection(a) ==
    [a EXCEPT !.filtered_todos = SelectSeq(a.todos, LAMBDA t : FilterKeeps(a, t))]

apply_filters(a) ==
    LET filtered == SelectSeq(a.todos, LAMBDA t : FilterKeeps(a, t))
        b == [a EXCEPT !.filtered_todos = filtered]
    IN  IF filtered = <<>> THEN Select(b, None) ELSE Select(b, Some(0))

App_new ==
    apply_filters(
        [should_quit |-> FALSE,
         current_screen |-> "TodoList",
         input_mode |-> "Normal",
         todos |-> <<>>,
         selected_todo |-> None,
         list_state |-> None,
         input_buffer |-> <<>>,
         input_form |-> InputForm_new,
         loading |-> FALSE,
         loading_spinner_state |-> 0,
         error_message |-> None,
         success_message |-> None,
         search_query |-> <<>>,
         show_all_todos |-> FALSE,
         filter_priority |-> None,
         filter_tag |-> None,
         filtered_todos |-> <<>>])

quit(a) == [a EXCEPT !.should_quit = TRUE]

\* start_search with the assignment to input_mode left out (C3 depends on it)
start_search_keeps_mode(a) ==
    clear_messages([a EXCEPT !.current_screen = "Search", !.search_query = <<>>])

start_search(a) ==
    clear_messages([a EXCEPT !.current_screen = "Search", !.input_mode = "Editing",
                             !.search_query = <<>>])

toggle_show_all(a) ==
    LET b == apply_filters([a EXCEPT !.show_all_todos = ~a.show_all_todos])
    IN  show_success(b, IF b.show_all_todos THEN "Now showing all todos"
                        ELSE "Now showing pending todos")

\* set_priority_filter that stores the filter and leaves the view for later
\* (C30 depends on the call of apply_filters)
set_priority_filter_lazy(a, priority) ==
    LET b == [a EXCEPT !.filter_priority = priority]
        msg == CASE priority = Some(1) -> "Filtering by low priority"
                 [] priority = Some(2) -> "Filtering by medium priority"
                 [] priority = Some(3) -> "Filtering by high priority"
                 [] priority = None -> "Priority filter cleared"
                 [] OTHER -> "Invalid priority"
    IN  show_success(b, msg)

set_priority_filter(a, priority) ==
    LET b == apply_filters([a EXCEPT !.filter_priority = priority])
        msg == CASE priority = Some(1) -> "Filtering by low priority"
                 [] priority = Some(2) -> "Filtering by medium priority"
                 [] priority = Some(3) -> "Filtering by high priority"
                 [] priority = None -> "Priority filter cleared"
                 [] OTHER -> "Invalid priority"
    IN  show_success(b, msg)

\* show_todo_detail without the test for a selection (C18 depends on it)
show_todo_detail_unguarded(a) == [a EXCEPT !.current_screen = "TodoDetail"]

show_todo_detail(a) ==
    IF IsSome(a.selected_todo) THEN [a EXCEPT !.current_screen = "TodoDetail"] ELSE a

\* next_todo that stops at the last item instead of wrapping (C12 depends on
\* the wrap)
next_todo_saturating(a) ==
    IF a.filtered_todos # <<>>
    THEN LET i == IF IsSome(a.selected_todo)
                  THEN (IF Unwrap(a.selected_todo) >= Len(a.filtered_todos) - 1
                        THEN Len(a.filtered_todos) - 1 ELSE Unwrap(a.selected_todo) + 1)
                  ELSE 0
         IN  Select(a, Some(i))
    ELSE a
\* next_todo without `self.list_state.select(Some(i))` (C39 depends on the
\* two being assigned together)
next_todo_unsynced(a) ==
    IF a.filtered_todos # <<>>
    THEN LET i == IF IsSome(a.selected_todo)
                  THEN (IF Unwrap(a.selected_todo) >= Len(a.filtered_todos) - 1
                        THEN 0 ELSE Unwrap(a.selected_todo) + 1)
                  ELSE 0
         IN  [a EXCEPT !.selected_todo = Some(i)]
    ELSE a

next_todo(a) ==
    IF a.filtered_todos # <<>>
    THEN LET i == IF IsSome(a.selected_todo)
                  THEN (IF Unwrap(a.selected_todo) >= Len(a.filtered_todos) - 1
                        THEN 0 ELSE Unwrap(a.selected_todo) + 1)
                  ELSE 0
         IN  Select(a, Some(i))
    ELSE a

\* previous_todo without the test for an empty view (C13 depends on it)
previous_todo_unguarded(a) ==
    LET i == IF IsSome(a.selected_todo)
             THEN (IF Unwrap(a.selected_todo) = 0
                   THEN Len(a.filtered_todos) - 1 ELSE Unwrap(a.selected_todo) - 1)
             ELSE 0
    IN  Select(a, Some(i))

previous_todo(a) ==
    IF a.filtered_todos # <<>>
    THEN LET i == IF IsSome(a.selected_todo)
                  THEN (IF Unwrap(a.selected_todo) = 0
                        THEN Len(a.filtered_todos) - 1 ELSE Unwrap(a.selected_todo) - 1)
                  ELSE 0
         IN  Select(a, Some(i))
    ELSE a

----------------------------------------------------------------------------
(* TodoListWidget (src/tui/components.rs) *)

TodoListWidget_new(todos) ==
    [todos |-> todos, state |-> IF todos # <<>> THEN Some(0) ELSE None]

TodoListWidget_next(w) ==
    IF w.todos # <<>>
    THEN [w EXCEPT !.state =
             Some(IF IsSome(w.state)
                  THEN (IF Unwrap(w.state) >= Len(w.todos) - 1 THEN 0 ELSE Unwrap(w.state) + 1)
                  ELSE 0)]
    ELSE w

TodoListWidget_previous(w) ==
    IF w.todos # <<>>
    THEN [w EXCEPT !.state =
             Some(IF IsSome(w.state)
                  THEN (IF Unwrap(w.state) = 0 THEN Len(w.todos) - 1 ELSE Unwrap(w.state) - 1)
                  ELSE 0)]
    ELSE w

\* TodoListWidget::selected_todo
TodoListWidget_selected_todo(w) ==
    IF IsSome(w.state) /\ InRange(w.todos, Unwrap(w.state))
    THEN Some(At(w.todos, Unwrap(w.state)))
    ELSE None

----------------------------------------------------------------------------
(* App: the operations that await the remote service.  X_begin returns the *)
(* App at the await and the call awaited (none when the method returns     *)
(* without calling); X_resume is the method's code after the await.        *)

NoRequest ==
    [title |-> None, description |-> None, completed |-> None, priority |-> None,
     due_date |-> None]

Call(kind, index, todo_id, request) ==
    [kind |-> kind, index |-> index, todo_id |-> todo_id, request |-> request]

Returned(a) == [app |-> a, call |-> <<>>]
Awaiting(a, call) == [app |-> a, call |-> <<call>>]

\* filtered_todos.get(index) for the selected index
SelectedTodo(a) ==
    IF IsSome(a.selected_todo) /\ InRange(a.filtered_todos, Unwrap(a.selected_todo))
    THEN Some(At(a.filtered_todos, Unwrap(a.selected_todo)))
    ELSE None

\* the patch of the full collection left out (C8 depends on both being patched)
PatchById_skipped(v, id, updated) == v

\* todos[main_index] = updated for the first todo with that id, if any
PatchById(v, id, updated) ==
    LET pos == PositionById(v, id)
    IN  IF IsSome(pos) THEN [v EXCEPT ![Unwrap(pos) + 1] = updated] ELSE v

execute_search_begin(a) ==
    IF trim(a.search_query) = <<>>
    THEN Returned(apply_filters([a EXCEPT !.current_screen = "TodoList", !.input_mode = "Normal"]))
    ELSE Awaiting(clear_messages([a EXCEPT !.loading = TRUE]),
                  Call("search_todos", 0, 0, NoRequest))

\* format!("Found {} results for '{}'", filtered_todos.len(), search_query)
FoundMessage(a) ==
    "Found " \o ToString(Len(a.filtered_todos)) \o " results for '"
    \o Display(a.search_query) \o "'"

execute_search_resume(a, call, res) ==
    LET b == IF res.ok
             THEN LET f == apply_filters([a EXCEPT !.todos = res.todos])
                  IN  show_success(
                          [f EXCEPT !.current_screen = "TodoList", !.input_mode = "Normal"],
                          FoundMessage(f))
             ELSE show_error(a, "Search failed. Please try again.")
    IN  [b EXCEPT !.loading = FALSE]

load_todos_begin(a) ==
    Awaiting(clear_messages([a EXCEPT !.loading = TRUE]), Call("list_todos", 0, 0, NoRequest))

\* format!("Loaded {} todo(s), showing {}", todos.len(), filtered_todos.len())
LoadedMessage(a) ==
    "Loaded " \o ToString(Len(a.todos)) \o " todo(s), showing "
    \o ToString(Len(a.filtered_todos))

\* load_todos that gives up on a failure by asking the loop to stop (C19
\* depends on the failure branch only showing a message)
load_todos_resume_fatal(a, call, res) ==
    LET b == IF res.ok
             THEN LET f == apply_filters([a EXCEPT !.todos = res.todos])
                  IN  show_success(f, LoadedMessage(f))
             ELSE quit(show_error(a, "Unable to load todos. Please check your connection and try again."))
    IN  [b EXCEPT !.loading = FALSE]

load_todos_resume(a, call, res) ==
    LET b == IF res.ok
             THEN LET f == apply_filters([a EXCEPT !.todos = res.todos])
                      g == IF IsSome(f.selected_todo)
                           THEN (IF Unwrap(f.selected_todo) >= Len(f.filtered_todos)
                                 THEN Select(f, IF f.filtered_todos = <<>> THEN None ELSE Some(0))
                                 ELSE f)
                           ELSE IF f.filtered_todos # <<>> THEN Select(f, Some(0))
                           ELSE f
                  IN  show_success(g, LoadedMessage(g))
             ELSE show_error(a, "Unable to load todos. Please check your connection and try again.")
    IN  [b EXCEPT !.loading = FALSE]

toggle_selected_todo_begin(a) ==
    IF IsSome(SelectedTodo(a))
    THEN Awaiting(clear_messages([a EXCEPT !.loading = TRUE]),
                  Call("toggle_todo", Unwrap(a.selected_todo), Unwrap(SelectedTodo(a)).id, NoRequest))
    ELSE Returned(a)

\* toggle_selected_todo flipping the flag locally whatever the service
\* answers (C4 depends on the failure branch leaving the todo alone)
toggle_selected_todo_resume_optimistic(a, call, res) ==
    LET old == At(a.filtered_todos, call.index)
        new == IF res.ok THEN res.todo ELSE [old EXCEPT !.completed = ~old.completed]
        c == [a EXCEPT !.todos = PatchById(a.todos, call.todo_id, new),
                       !.filtered_todos[call.index + 1] = new]
        b == IF res.ok
             THEN show_success(c, "Todo toggled successfully")
             ELSE show_error(c, "Unable to update todo status. Please try again.")
    IN  [b EXCEPT !.loading = FALSE]

toggle_selected_todo_resume(a, call, res) ==
    LET b == IF res.ok
             THEN show_success(
                      [a EXCEPT !.todos = PatchById(a.todos, call.todo_id, res.todo),
                                !.filtered_todos[call.index + 1] = res.todo],
                      "Todo toggled successfully")
             ELSE show_error(a, "Unable to update todo status. Please try again.")
    IN  [b EXCEPT !.loading = FALSE]

delete_selected_todo_begin(a) ==
    IF IsSome(SelectedTodo(a))
    THEN Awaiting(clear_messages([a EXCEPT !.loading = TRUE]),
                  Call("delete_todo", Unwrap(a.selected_todo), Unwrap(SelectedTodo(a)).id, NoRequest))
    ELSE Returned(a)

\* format!("Deleted: {todo_title}"), the title read before the await
DeletedMessage(a, call) == "Deleted: " \o Display(At(a.filtered_todos, call.index).title)

\* delete_selected_todo without its adjustment of the selection (C2 depends on it)
delete_selected_todo_resume_keeps_index(a, call, res) ==
    LET b == IF res.ok
             THEN show_success(
                      [a EXCEPT
                          !.todos = SelectSeq(a.todos, LAMBDA t : t.id # call.todo_id),
                          !.filtered_todos = VecRemove(a.filtered_todos, call.index)],
                      DeletedMessage(a, call))
             ELSE show_error(a, "Unable to delete todo. Please try again.")
    IN  [b EXCEPT !.loading = FALSE]

\* delete_selected_todo that removes the todo from the view only (C29
\* depends on the retain over todos)
delete_selected_todo_resume_view_only(a, call, res) ==
    LET b == IF res.ok
             THEN LET c == [a EXCEPT
                              !.filtered_todos = VecRemove(a.filtered_todos, call.index)]
                      d == IF c.filtered_todos = <<>> THEN Select(c, None)
                           ELSE IF call.index >= Len(c.filtered_todos)
                                THEN Select(c, Some(Len(c.filtered_todos) - 1))
                           ELSE c
                  IN  show_success(d, DeletedMessage(a, call))
             ELSE show_error(a, "Unable to delete todo. Please try again.")
    IN  [b EXCEPT !.loading = FALSE]

delete_selected_todo_resume(a, call, res) ==
    LET b == IF res.ok
             THEN LET c == [a EXCEPT
                              !.todos = SelectSeq(a.todos, LAMBDA t : t.id # call.todo_id),
                              !.filtered_todos = VecRemove(a.filtered_todos, call.index)]
                      d == IF c.filtered_todos = <<>> THEN Select(c, None)
                           ELSE IF call.index >= Len(c.filtered_todos)
                                THEN Select(c, Some(Len(c.filtered_todos) - 1))
                           ELSE c
                  IN  show_success(d, DeletedMessage(a, call))
             ELSE show_error(a, "Unable to delete todo. Please try again.")
    IN  [b EXCEPT !.loading = FALSE]

start_edit_selected_todo(a) ==
    IF IsSome(SelectedTodo(a))
    THEN LET todo == Unwrap(SelectedTodo(a))
         IN  clear_messages(
                 [a EXCEPT !.input_form.title = todo.title,
                           !.input_form.description =
                               IF IsSome(todo.description) THEN Unwrap(todo.description) ELSE <<>>,
                           !.input_form.priority = todo.priority,
                           !.input_form.due_date =
                               IF IsSome(todo.due_date)
                               THEN format_local(Unwrap(todo.due_date), utc_offset)
                               ELSE <<>>,
                           !.current_screen = "EditTodo",
                           !.input_mode = "Editing"])
    ELSE a
\* update_selected_todo naming the first todo of the view instead of the
\* selected one (C35 depends on the identifier read at the selected index)
update_selected_todo_parsed_first(b, due) ==
    IF ~due.ok
    THEN Returned(show_error([b EXCEPT !.loading = FALSE], due.err))
    ELSE Awaiting(b,
             Call("update_todo", Unwrap(b.selected_todo), At(b.filtered_todos, 0).id,
                  [title |-> Some(trim(b.input_form.title)),
                   description |-> IF trim(b.input_form.description) = <<>> THEN None
                                   ELSE Some(trim(b.input_form.description)),
                   completed |-> None,
                   priority |-> Some(b.input_form.priority),
                   due_date |-> due.value]))

\* update_selected_todo from `match self.input_form.parse_due_date()` on:
\* b is the App with loading set, due the result of the parse
update_selected_todo_parsed(b, due) ==
    IF ~due.ok
    THEN Returned(show_error([b EXCEPT !.loading = FALSE], due.err))
    ELSE Awaiting(b,
             Call("update_todo", Unwrap(b.selected_todo), Unwrap(SelectedTodo(b)).id,
                  [title |-> Some(trim(b.input_form.title)),
                   description |-> IF trim(b.input_form.description) = <<>> THEN None
                                   ELSE Some(trim(b.input_form.description)),
                   completed |-> None,
                   priority |-> Some(b.input_form.priority),
                   due_date |-> due.value]))

update_selected_todo_begin(a) ==
    IF ~is_valid(a.input_form)
    THEN Returned(show_error(a, "Please enter a title for your todo"))
    ELSE IF IsSome(SelectedTodo(a))
    THEN update_selected_todo_parsed(clear_messages([a EXCEPT !.loading = TRUE]),
                                     parse_due_date(a.input_form))
    ELSE Returned(a)

update_selected_todo_resume(a, call, res) ==
    LET b == IF res.ok
             THEN show_success(
                      [a EXCEPT !.todos = PatchById(a.todos, call.todo_id, res.todo),
                                !.filtered_todos[call.index + 1] = res.todo,
                                !.input_form = InputForm_clear(a.input_form),
                                !.current_screen = "TodoList",
                                !.input_mode = "Normal"],
                      "Updated: " \o Display(res.todo.title))
             ELSE show_error(a, "Unable to update todo. Please try again.")
    IN  [b EXCEPT !.loading = FALSE]

\* create_todo returning on a due-date error without resetting loading
\* (C5 depends on that reset)
create_todo_begin_stays_busy(a) ==
    IF ~is_valid(a.input_form)
    THEN Returned(show_error(a, "Please enter a title for your todo"))
    ELSE LET b == clear_messages([a EXCEPT !.loading = TRUE])
             req == to_create_request(b.input_form)
         IN  IF ~req.ok
             THEN Returned(show_error(b, req.err))
             ELSE Awaiting(b, Call("create_todo", 0, 0,
                                   [title |-> Some(req.request.title),
                                    description |-> req.request.description,
                                    completed |-> None,
                                    priority |-> req.request.priority,
                                    due_date |-> req.request.due_date]))

\* create_todo from `match self.input_form.to_create_request()` on: b is
\* the App with loading set, req the result of to_create_request
create_todo_requested(b, req) ==
    IF ~req.ok
    THEN Returned(show_error([b EXCEPT !.loading = FALSE], req.err))
    ELSE Awaiting(b, Call("create_todo", 0, 0,
                          [title |-> Some(req.request.title),
                           description |-> req.request.description,
                           completed |-> None,
                           priority |-> req.request.priority,
                           due_date |-> req.request.due_date]))

create_todo_begin(a) ==
    IF ~is_valid(a.input_form)
    THEN Returned(show_error(a, "Please enter a title for your todo"))
    ELSE create_todo_requested(clear_messages([a EXCEPT !.loading = TRUE]),
                               to_create_request(a.input_form))
\* create_todo that leaves the selection where apply_filters put it (C31
\* depends on the selection of the new todo)
create_todo_resume_selects_first(a, call, res) ==
    LET b == IF res.ok
             THEN LET f == apply_filters([a EXCEPT !.todos = Append(a.todos, res.todo)])
                  IN  show_success(
                          [f EXCEPT !.input_form = InputForm_clear(f.input_form),
                                    !.current_screen = "TodoList",
                                    !.input_mode = "Normal"],
                          "Created: " \o Display(res.todo.title))
             ELSE show_error(a, "Unable to create todo. Please try again.")
    IN  [b EXCEPT !.loading = FALSE]

create_todo_resume(a, call, res) ==
    LET b == IF res.ok
             THEN LET f == apply_filters([a EXCEPT !.todos = Append(a.todos, res.todo)])
                      new_index == PositionById(f.filtered_todos, res.todo.id)
                      g == IF IsSome(new_index) THEN Select(f, new_index) ELSE f
                  IN  show_success(
                          [g EXCEPT !.input_form = InputForm_clear(g.input_form),
                                    !.current_screen = "TodoList",
                                    !.input_mode = "Normal"],
                          "Created: " \o Display(res.todo.title))
             ELSE show_error(a, "Unable to create todo. Please try again.")
    IN  [b EXCEPT !.loading = FALSE]

\* the continuation of whichever method awaits `call`
resume(a, call, res) ==
    CASE call.kind = "list_todos" -> load_todos_resume(a, call, res)
      [] call.kind = "search_todos" -> execute_search_resume(a, call, res)
      [] call.kind = "toggle_todo" -> toggle_selected_todo_resume(a, call, res)
      [] call.kind = "delete_todo" -> delete_selected_todo_resume(a, call, res)
      [] call.kind = "update_todo" -> update_selected_todo_resume(a, call, res)
      [] OTHER -> create_todo_resume(a, call, res)

----------------------------------------------------------------------------
(* App: key dispatch *)

Key(code) == [code |-> code, c |-> ""]
Char(c) == [code |-> "Char", c |-> c]

IsChar(key, cs) == key.code = "Char" /\ key.c \in cs

\* handle_normal_key in which any key closes Help, Settings and TodoDetail
\* (C17 depends on the match on Esc and 'q')
handle_normal_key_any_key_returns(a, key) ==
    CASE a.current_screen = "TodoList" ->
            CASE IsChar(key, {"q"}) \/ key.code = "Esc" -> Returned(quit(a))
              [] IsChar(key, {"r"}) -> load_todos_begin(a)
              [] IsChar(key, {"n", "a"}) ->
                    Returned([a EXCEPT !.current_screen = "AddTodo",
                                       !.input_mode = "Editing",
                                       !.input_form = InputForm_clear(a.input_form)])
              [] IsChar(key, {"e"}) -> Returned(start_edit_selected_todo(a))
              [] IsChar(key, {"h", "?"}) -> Returned([a EXCEPT !.current_screen = "Help"])
              [] IsChar(key, {"s"}) -> Returned([a EXCEPT !.current_screen = "Settings"])
              [] IsChar(key, {"/"}) -> Returned(start_search(a))
              [] IsChar(key, {"f"}) -> Returned(toggle_show_all(a))
              [] IsChar(key, {"1"}) -> Returned(set_priority_filter(a, Some(1)))
              [] IsChar(key, {"2"}) -> Returned(set_priority_filter(a, Some(2)))
              [] IsChar(key, {"3"}) -> Returned(set_priority_filter(a, Some(3)))
              [] IsChar(key, {"0"}) -> Returned(set_priority_filter(a, None))
              [] IsChar(key, {"v"}) -> Returned(show_todo_detail(a))
              [] key.code = "Up" \/ IsChar(key, {"k"}) -> Returned(previous_todo(a))
              [] key.code = "Down" \/ IsChar(key, {"j"}) -> Returned(next_todo(a))
              [] key.code = "Enter" \/ IsChar(key, {" "}) -> toggle_selected_todo_begin(a)
              [] IsChar(key, {"d"}) -> delete_selected_todo_begin(a)
              [] OTHER -> Returned(a)
      [] a.current_screen \in {"Help", "Settings", "TodoDetail"} ->
            Returned([a EXCEPT !.current_screen = "TodoList"])
      [] OTHER ->
            IF key.code = "Esc"
            THEN Returned([a EXCEPT !.current_screen = "TodoList",
                                    !.input_mode = "Normal",
                                    !.input_form = InputForm_clear(a.input_form),
                                    !.search_query = <<>>])
            ELSE Returned(a)

\* handle_normal_key whose 'n' | 'a' arm opens the form without clearing it
\* (C28 depends on the clear)
handle_normal_key_add_keeps_form(a, key) ==
    CASE a.current_screen = "TodoList" ->
            CASE IsChar(key, {"q"}) \/ key.code = "Esc" -> Returned(quit(a))
              [] IsChar(key, {"r"}) -> load_todos_begin(a)
              [] IsChar(key, {"n", "a"}) ->
                    Returned([a EXCEPT !.current_screen = "AddTodo",
                                       !.input_mode = "Editing"])
              [] IsChar(key, {"e"}) -> Returned(start_edit_selected_todo(a))
              [] IsChar(key, {"h", "?"}) -> Returned([a EXCEPT !.current_screen = "Help"])
              [] IsChar(key, {"s"}) -> Returned([a EXCEPT !.current_screen = "Settings"])
              [] IsChar(key, {"/"}) -> Returned(start_search(a))
              [] IsChar(key, {"f"}) -> Returned(toggle_show_all(a))
              [] IsChar(key, {"1"}) -> Returned(set_priority_filter(a, Some(1)))
              [] IsChar(key, {"2"}) -> Returned(set_priority_filter(a, Some(2)))
              [] IsChar(key, {"3"}) -> Returned(set_priority_filter(a, Some(3)))
              [] IsChar(key, {"0"}) -> Returned(set_priority_filter(a, None))
              [] IsChar(key, {"v"}) -> Returned(show_todo_detail(a))
              [] key.code = "Up" \/ IsChar(key, {"k"}) -> Returned(previous_todo(a))
              [] key.code = "Down" \/ IsChar(key, {"j"}) -> Returned(next_todo(a))
              [] key.code = "Enter" \/ IsChar(key, {" "}) -> toggle_selected_todo_begin(a)
              [] IsChar(key, {"d"}) -> delete_selected_todo_begin(a)
              [] OTHER -> Returned(a)
      [] a.current_screen \in {"Help", "Settings", "TodoDetail"} ->
            IF key.code = "Esc" \/ IsChar(key, {"q"})
            THEN Returned([a EXCEPT !.current_screen = "TodoList"])
            ELSE Returned(a)
      [] OTHER ->
            IF key.code = "Esc"
            THEN Returned([a EXCEPT !.current_screen = "TodoList",
                                    !.input_mode = "Normal",
                                    !.input_form = InputForm_clear(a.input_form),
                                    !.search_query = <<>>])
            ELSE Returned(a)

handle_normal_key(a, key) ==
    CASE a.current_screen = "TodoList" ->
            CASE IsChar(key, {"q"}) \/ key.code = "Esc" -> Returned(quit(a))
              [] IsChar(key, {"r"}) -> load_todos_begin(a)
              [] IsChar(key, {"n", "a"}) ->
                    Returned([a EXCEPT !.current_screen = "AddTodo",
                                       !.input_mode = "Editing",
                                       !.input_form = InputForm_clear(a.input_form)])
              [] IsChar(key, {"e"}) -> Returned(start_edit_selected_todo(a))
              [] IsChar(key, {"h", "?"}) -> Returned([a EXCEPT !.current_screen = "Help"])
              [] IsChar(key, {"s"}) -> Returned([a EXCEPT !.current_screen = "Settings"])
              [] IsChar(key, {"/"}) -> Returned(start_search(a))
              [] IsChar(key, {"f"}) -> Returned(toggle_show_all(a))
              [] IsChar(key, {"1"}) -> Returned(set_priority_filter(a, Some(1)))
              [] IsChar(key, {"2"}) -> Returned(set_priority_filter(a, Some(2)))
              [] IsChar(key, {"3"}) -> Returned(set_priority_filter(a, Some(3)))
              [] IsChar(key, {"0"}) -> Returned(set_priority_filter(a, None))
              [] IsChar(key, {"v"}) -> Returned(show_todo_detail(a))
              [] key.code = "Up" \/ IsChar(key, {"k"}) -> Returned(previous_todo(a))
              [] key.code = "Down" \/ IsChar(key, {"j"}) -> Returned(next_todo(a))
              [] key.code = "Enter" \/ IsChar(key, {" "}) -> toggle_selected_todo_begin(a)
              [] IsChar(key, {"d"}) -> delete_selected_todo_begin(a)
              [] OTHER -> Returned(a)
      [] a.current_screen \in {"Help", "Settings", "TodoDetail"} ->
            IF key.code = "Esc" \/ IsChar(key, {"q"})
            THEN Returned([a EXCEPT !.current_screen = "TodoList"])
            ELSE Returned(a)
      [] OTHER ->
            IF key.code = "Esc"
            THEN Returned([a EXCEPT !.current_screen = "TodoList",
                                    !.input_mode = "Normal",
                                    !.input_form = InputForm_clear(a.input_form),
                                    !.search_query = <<>>])
            ELSE Returned(a)

\* handle_editing_key without the test of the screen: characters and
\* Backspace always go to the form (C33 depends on the test for Search)
handle_editing_key_form_only(a, key) ==
    CASE key.code = "Esc" ->
            Returned([a EXCEPT !.current_screen = "TodoList",
                               !.input_mode = "Normal",
                               !.input_form = InputForm_clear(a.input_form)])
      [] key.code = "Enter" ->
            CASE a.current_screen = "AddTodo" -> create_todo_begin(a)
              [] a.current_screen = "EditTodo" -> update_selected_todo_begin(a)
              [] a.current_screen = "Search" -> execute_search_begin(a)
              [] OTHER -> Returned(a)
      [] key.code = "Tab" -> Returned([a EXCEPT !.input_form = next_field(a.input_form)])
      [] key.code = "BackTab" -> Returned([a EXCEPT !.input_form = previous_field(a.input_form)])
      [] key.code = "Char" ->
            Returned([a EXCEPT !.input_form = handle_char(a.input_form, key.c)])
      [] key.code = "Backspace" ->
            Returned([a EXCEPT !.input_form = handle_backspace(a.input_form)])
      [] OTHER -> Returned(a)

handle_editing_key(a, key) ==
    CASE key.code = "Esc" ->
            Returned([a EXCEPT !.current_screen = "TodoList",
                               !.input_mode = "Normal",
                               !.input_form = InputForm_clear(a.input_form)])
      [] key.code = "Enter" ->
            CASE a.current_screen = "AddTodo" -> create_todo_begin(a)
              [] a.current_screen = "EditTodo" -> update_selected_todo_begin(a)
              [] a.current_screen = "Search" -> execute_search_begin(a)
              [] OTHER -> Returned(a)
      [] key.code = "Tab" -> Returned([a EXCEPT !.input_form = next_field(a.input_form)])
      [] key.code = "BackTab" -> Returned([a EXCEPT !.input_form = previous_field(a.input_form)])
      [] key.code = "Char" ->
            IF a.current_screen = "Search"
            THEN Returned([a EXCEPT !.search_query = push(a.search_query, key.c)])
            ELSE Returned([a EXCEPT !.input_form = handle_char(a.input_form, key.c)])
      [] key.code = "Backspace" ->
            IF a.current_screen = "Search"
            THEN Returned([a EXCEPT !.search_query = pop(a.search_query)])
            ELSE Returned([a EXCEPT !.input_form = handle_backspace(a.input_form)])
      [] OTHER -> Returned(a)

\* handle_key that sends every key to the editing handler, whatever the mode
\* (C16 depends on the match on input_mode)
handle_key_always_editing(a, key) == handle_editing_key(clear_messages(a), key)

handle_key(a, key) ==
    LET b == clear_messages(a)
    IN  IF b.input_mode = "Normal" THEN handle_normal_key(b, key) ELSE handle_editing_key(b, key)

\* App::handle_ctrl_c, App::tick_spinner and App::tick_messages are called by
\* run_app and are not part of app.rs.  The interrupt key is handled "for quit
\* confirmation": it leaves the state or it quits.  The tick advances the
\* spinner, which is the only timer-driven mutation.
handle_ctrl_c(a) == {a, quit(a)}

tick_spinner(a) == [a EXCEPT !.loading_spinner_state = a.loading_spinner_state + 1]

tick_messages(a) == a

\* ui::render: what a frame shows of the busy flag
render(a) == [loading |-> a.loading, spinner |-> a.loading_spinner_state % 10]

----------------------------------------------------------------------------
(* The remote todo service, as seen through ApiClient (src/api.rs) *)

DueB == 1710513000      \* 2024-03-15 14:30:00 UTC

TodoA == Todo(1, <<"A">>, None, FALSE, 1, None, 0, 0)
TodoB == Todo(2, <<"3">>, Some(<<"a">>), TRUE, 2, Some(DueB), 0, 0)
TodoC == Todo(3, <<"a">>, None, FALSE, 3, None, 0, 0)

\* what list_todos and search_todos may return
ServerLists == { <<>>, <<TodoA, TodoB, TodoC>> }

UtcOffsets == {3600}

NoTodo == Todo(0, <<>>, None, FALSE, 0, None, 0, 0)

Err == [ok |-> FALSE, todos |-> <<>>, todo |-> NoTodo]
OkTodos(l) == [ok |-> TRUE, todos |-> l, todo |-> NoTodo]
OkTodo(t) == [ok |-> TRUE, todos |-> <<>>, todo |-> t]
OkUnit == [ok |-> TRUE, todos |-> <<>>, todo |-> NoTodo]

\* the service's record of the todo the call names
ServerCopy(a, call) == At(a.todos, Unwrap(PositionById(a.todos, call.todo_id)))

ServerToggle(todo, now) == [todo EXCEPT !.completed = ~todo.completed, !.updated_at = now]

\* each omitted field means "leave unchanged"
ServerUpdate(todo, req, now) ==
    [todo EXCEPT !.title = IF IsSome(req.title) THEN Unwrap(req.title) ELSE todo.title,
                 !.description = IF IsSome(req.description) THEN req.description ELSE todo.description,
                 !.completed = IF IsSome(req.completed) THEN Unwrap(req.completed) ELSE todo.completed,
                 !.priority = IF IsSome(req.priority) THEN Unwrap(req.priority) ELSE todo.priority,
                 !.due_date = IF IsSome(req.due_date) THEN req.due_date ELSE todo.due_date,
                 !.updated_at = now]

ServerCreate(req, now) ==
    Todo(100 + now, Unwrap(req.title), req.description, FALSE,
         IF IsSome(req.priority) THEN Unwrap(req.priority) ELSE 2, req.due_date, now, now)

\* the successful results the service may give to `call`
OkReplies(a, call) ==
    CASE call.kind \in {"list_todos", "search_todos"} -> {OkTodos(l) : l \in ServerLists}
      [] call.kind = "delete_todo" -> {OkUnit}
      [] call.kind = "toggle_todo" -> {OkTodo(ServerToggle(ServerCopy(a, call), clock + 1))}
      [] call.kind = "update_todo" -> {OkTodo(ServerUpdate(ServerCopy(a, call), call.request, clock + 1))}
      [] OTHER -> {OkTodo(ServerCreate(call.request, clock + 1))}

Mutates(call) == call.kind \in {"toggle_todo", "update_todo", "create_todo"}

----------------------------------------------------------------------------
(* run_app (src/bin/patui.rs): the event loop.  One action is one pass of   *)
(* the loop body from event::poll to the next terminal.draw, cut only where *)
(* the handler awaits the remote service.                                  *)

\* the keys the model presses in Normal mode: every key the TodoList screen
\* maps (of the four priority-filter keys, '3' and '0') and two it does not
NormalChars ==
    {"q", "r", "n", "a", "e", "h", "?", "s", "/", "f", "3", "0", "v", "k", "j", " ", "d", "x"}
NormalKeys ==
    {Char(c) : c \in NormalChars} \cup {Key("Esc"), Key("Enter"), Key("Up"), Key("Down"), Key("Tab")}

\* the keys of the specification that follows the tick
LoopKeys == {Char(c) : c \in {"q", "r", "n", "d", "j", "/"}} \cup {Key("Esc"), Key("Enter")}

\* the characters the model types: a letter, a blank and a digit.  A letter
\* is offered on every field (the priority and due-date fields reject it); the
\* blank and the digit only where they differ from the letter.
OfferedChars(a) ==
    IF a.current_screen = "Search" THEN {"a", " "}
    ELSE CASE a.input_form.current_field = "Title" -> {"a", " "}
           [] a.input_form.current_field = "Description" -> {"a", " "}
           [] a.input_form.current_field = "Priority" -> {"a", "3"}
           [] OTHER -> {"a", " ", "3"}

EditingKeys(a) ==
    {Char(c) : c \in OfferedChars(a)}
    \cup {Key("Esc"), Key("Enter"), Key("Tab"), Key("BackTab"), Key("Backspace"), Key("Up")}

\* the text a character key would extend, and the length the model lets it reach
TypingRoom(a) ==
    IF a.current_screen = "Search" THEN Len(a.search_query) < MaxQueryLen
    ELSE CASE a.input_form.current_field = "Title" -> Len(a.input_form.title) < MaxTitleLen
           [] a.input_form.current_field = "Description" -> Len(a.input_form.description) < MaxDescLen
           [] a.input_form.current_field = "DueDate" -> Len(a.input_form.due_date) < MaxDueLen
           [] OTHER -> TRUE

\* keys that open a form or ask the service to change a todo: the model
\* offers them while the service's clock is below its bound
OpensMutation(key) ==
    key.code = "Enter" \/ IsChar(key, {"n", "a", "e", " "})

Init ==
    /\ app = App_new
    /\ pending = <<>>
    /\ pc = "start"
    /\ frame = None
    /\ clock = 0
    /\ utc_offset \in UtcOffsets
    /\ widget = TodoListWidget_new(<<>>)

\* last_tick.elapsed() >= tick_rate: tick_spinner and tick_messages
TickIf(a, ticked) == IF ticked THEN tick_messages(tick_spinner(a)) ELSE a

\* whether the tick interval has elapsed, for a model that follows `ticks` ticks
TickChoices(a, ticks) == IF a.loading_spinner_state < ticks THEN BOOLEAN ELSE {FALSE}
\* a loop without `if app.should_quit { break; }` (C34 depends on the break)
EndIteration_no_break(a, ticked) ==
    LET b == TickIf(a, ticked)
    IN  /\ app' = b
        /\ pc' = "poll"
        /\ frame' = Some(render(b))

\* the rest of the loop body once the handler has returned: the tick, the
\* should_quit test, and the draw that opens the next iteration
EndIteration(a, ticked) ==
    LET b == TickIf(a, ticked)
    IN  /\ app' = b
        /\ IF b.should_quit
           THEN pc' = "done" /\ frame' = frame
           ELSE pc' = "poll" /\ frame' = Some(render(b))

\* app.load_todos().await before the loop
Startup ==
    /\ pc = "start"
    /\ app' = load_todos_begin(app).app
    /\ pending' = pending \o load_todos_begin(app).call
    /\ pc' = "await"
    /\ UNCHANGED <<frame, clock, utc_offset, widget>>

\* a loop that would read events while a handler is still awaiting (C6
\* depends on the await sitting inside the loop body)
AtPoll_or_awaiting == pc \in {"poll", "await"}

\* the loop reads an event only at event::poll
AtPoll == pc = "poll"

\* run_app once handle_key has run up to its return or its await: r is the
\* App it leaves and the call it awaits, if any
Handled(r, ticks) ==
    /\ pending' = pending \o r.call
    /\ IF r.call # <<>>
       THEN app' = r.app /\ pc' = "await" /\ frame' = frame
       ELSE \E ticked \in TickChoices(r.app, ticks) : EndIteration(r.app, ticked)
    /\ UNCHANGED <<clock, utc_offset, widget>>

Dispatch(key, ticks) == Handled(handle_key(app, key), ticks)

KeyNormal(keys, ticks) ==
    /\ AtPoll
    /\ app.input_mode = "Normal"
    /\ \E key \in keys :
          /\ OpensMutation(key) => clock < MaxClock
          /\ Dispatch(key, ticks)

KeyEditing(ticks) ==
    /\ AtPoll
    /\ app.input_mode = "Editing"
    /\ \E key \in EditingKeys(app) :
          /\ key.code = "Char" => TypingRoom(app)
          /\ Dispatch(key, ticks)

CtrlC(ticks) ==
    /\ AtPoll
    /\ \E b \in handle_ctrl_c(app) :
          \E ticked \in TickChoices(b, ticks) : EndIteration(b, ticked)
    /\ UNCHANGED <<pending, clock, utc_offset, widget>>

\* event::poll timed out, or the event was not a key
PollTimeout(ticks) ==
    /\ AtPoll
    /\ \E ticked \in TickChoices(app, ticks) : EndIteration(app, ticked)
    /\ UNCHANGED <<pending, clock, utc_offset, widget>>

\* where run_app continues once the awaited method has returned: the first
\* draw after the initial load, the end of the iteration after a key
AfterAwait(a, ticks) ==
    IF frame = None
    THEN app' = a /\ pc' = "poll" /\ frame' = Some(render(a))
    ELSE \E ticked \in TickChoices(a, ticks) : EndIteration(a, ticked)

ResolveOk(ticks) ==
    /\ pc = "await"
    /\ pending # <<>>
    /\ Mutates(Head(pending)) => clock < MaxClock
    /\ \E res \in OkReplies(app, Head(pending)) :
          AfterAwait(resume(app, Head(pending), res), ticks)
    /\ pending' = Tail(pending)
    /\ clock' = IF Mutates(Head(pending)) THEN clock + 1 ELSE clock
    /\ UNCHANGED <<utc_offset, widget>>

ResolveErr(ticks) ==
    /\ pc = "await"
    /\ pending # <<>>
    /\ AfterAwait(resume(app, Head(pending), Err), ticks)
    /\ pending' = Tail(pending)
    /\ UNCHANGED <<clock, utc_offset, widget>>

\* The application under every key of the model.  A pass of the loop ends
\* with the tick when the interval has elapsed, up to MaxAppTicks ticks.
Next ==
    \/ Startup
    \/ KeyNormal(NormalKeys, MaxAppTicks)
    \/ KeyEditing(MaxAppTicks)
    \/ CtrlC(MaxAppTicks)
    \/ PollTimeout(MaxAppTicks)
    \/ ResolveOk(MaxAppTicks)
    \/ ResolveErr(MaxAppTicks)

Spec == Init /\ [][Next]_vars

\* The event loop with its tick, under the keys of LoopKeys.
NextLoop ==
    \/ Startup
    \/ KeyNormal(LoopKeys, MaxTicks)
    \/ KeyEditing(MaxTicks)
    \/ CtrlC(MaxTicks)
    \/ PollTimeout(MaxTicks)
    \/ ResolveOk(MaxTicks)
    \/ ResolveErr(MaxTicks)

SpecLoop == Init /\ [][NextLoop]_vars

----------------------------------------------------------------------------
(* The filter engine and the status messages on their own: apply_filters   *)
(* applied to a collection and a filter state as a handler leaves them     *)
(* just before it calls apply_filters, and show_error / show_success /     *)
(* clear_messages applied in any order.  pc names the method applied last. *)

TodoD == Todo(4, <<"b", "A">>, Some(<<"B">>), FALSE, 3, None, 0, 0)

UnitTodos == {TodoA, TodoB, TodoC, TodoD}

\* the collections of at most n todos with distinct ids, in every order
Arrangements(S, n) ==
    {l \in UNION {[1..k -> S] : k \in 0..n} : \A i, j \in DOMAIN l : i # j => l[i] # l[j]}

UnitQueries == UNION {[1..k -> {"a", "B"}] : k \in 0..MaxQueryLen}

UnitMessages == {"first", "second"}

InitUnit ==
    /\ \E l \in Arrangements(UnitTodos, MaxUnitTodos), show \in BOOLEAN,
          p \in {None, Some(1), Some(2), Some(3)}, q \in UnitQueries :
          app = [App_new EXCEPT !.todos = l, !.show_all_todos = show,
                                !.filter_priority = p, !.search_query = q]
    /\ pending = <<>>
    /\ pc = "unit"
    /\ frame = None
    /\ clock = 0
    /\ utc_offset \in UtcOffsets
    /\ widget = TodoListWidget_new(<<>>)

UnitApplyFilters ==
    /\ pc = "unit"
    /\ app' = apply_filters(app)
    /\ pc' = "apply_filters"
    /\ UNCHANGED <<pending, frame, clock, utc_offset, widget>>

UnitShowError ==
    /\ pc # "unit"
    /\ \E m \in UnitMessages : app' = show_error(app, m)
    /\ pc' = "show_error"
    /\ UNCHANGED <<pending, frame, clock, utc_offset, widget>>

UnitShowSuccess ==
    /\ pc # "unit"
    /\ \E m \in UnitMessages : app' = show_success(app, m)
    /\ pc' = "show_success"
    /\ UNCHANGED <<pending, frame, clock, utc_offset, widget>>

UnitClearMessages ==
    /\ pc # "unit"
    /\ app' = clear_messages(app)
    /\ pc' = "clear_messages"
    /\ UNCHANGED <<pending, frame, clock, utc_offset, widget>>

NextUnit == UnitApplyFilters \/ UnitShowError \/ UnitShowSuccess \/ UnitClearMessages

SpecUnit == InitUnit /\ [][NextUnit]_vars

----------------------------------------------------------------------------
(* Navigation: next and previous called directly on an App whose view was
   computed by apply_filters and on a TodoListWidget built from the same
   list, as the tests of src/tui/components.rs do *)

MaxNavTodos == 3

InitNav ==
    /\ \E l \in Arrangements(UnitTodos, MaxNavTodos), show \in BOOLEAN :
          /\ app = apply_filters([App_new EXCEPT !.todos = l, !.show_all_todos = show])
          /\ widget = TodoListWidget_new(l)
    /\ pending = <<>>
    /\ pc = "nav"
    /\ frame = None
    /\ clock = 0
    /\ utc_offset \in UtcOffsets

NavNext ==
    /\ app' = next_todo(app)
    /\ pc' = "next_todo"
    /\ UNCHANGED <<pending, frame, clock, utc_offset, widget>>

NavPrevious ==
    /\ app' = previous_todo(app)
    /\ pc' = "previous_todo"
    /\ UNCHANGED <<pending, frame, clock, utc_offset, widget>>

WidgetNext ==
    /\ widget' = TodoListWidget_next(widget)
    /\ pc' = "widget_next"
    /\ UNCHANGED <<app, pending, frame, clock, utc_offset>>

WidgetPrevious ==
    /\ widget' = TodoListWidget_previous(widget)
    /\ pc' = "widget_previous"
    /\ UNCHANGED <<app, pending, frame, clock, utc_offset>>

NextNav == NavNext \/ NavPrevious \/ WidgetNext \/ WidgetPrevious

SpecNav == InitNav /\ [][NextNav]_vars

----------------------------------------------------------------------------
(* Filters: the filter keys of the TodoList screen, pressed between moves of
   the selection, on the Apps of the navigation above *)

FilterKeys == {Char("f"), Char("1"), Char("2"), Char("3"), Char("0")}

\* handle_key for a filter key
FilterKey ==
    /\ app.input_mode = "Normal"
    /\ app.current_screen = "TodoList"
    /\ \E key \in FilterKeys :
          /\ handle_key(app, key).call = <<>>
          /\ app' = handle_key(app, key).app
          /\ pc' = key.c
    /\ UNCHANGED <<pending, frame, clock, utc_offset, widget>>

NextFilter == NavNext \/ NavPrevious \/ FilterKey

SpecFilter == InitNav /\ [][NextFilter]_vars

----------------------------------------------------------------------------
(* The form: the keys that open, edit and leave the AddTodo and EditTodo
   forms and the Search screen, pressed on an App that has loaded the three
   todos of the service.  None of these keys awaits the service.  pc records
   the code of the key handled last. *)

MaxFormLen == 2

\* the characters typed on each field: letters and blanks on the text
\* fields, digits inside and outside 1..3 on the priority, and characters
\* the due-date field accepts and rejects
FormChars(a) ==
    CASE a.input_form.current_field = "Title" -> {"a", " "}
      [] a.input_form.current_field = "Description" -> {"b"}
      [] a.input_form.current_field = "Priority" -> {"a", "0", "1", "2", "3", "4", "9", "-"}
      [] OTHER -> {"a", "/", "3", "-", ":", " "}

FormNormalKeys == {Char("n"), Char("a"), Char("e"), Char("j"), Char("f"), Char("/")}

\* on the Search screen nothing is typed: Tab and Shift-Tab move the cursor
\* of the form, and Enter commits the empty query, which returns to the
\* TodoList without a call and without clearing the form
FormEditingKeys(a) ==
    IF a.current_screen = "Search"
    THEN {Key("Esc"), Key("Tab"), Key("BackTab"), Key("Backspace"), Key("Enter")}
    ELSE {Char(c) : c \in FormChars(a)}
         \cup {Key("Esc"), Key("Tab"), Key("BackTab"), Key("Backspace")}

\* the text a character key would extend is below the length the model lets
\* it reach
FormRoom(a) ==
    CASE a.input_form.current_field = "Title" -> Len(a.input_form.title) < MaxFormLen
      [] a.input_form.current_field = "Description" -> Len(a.input_form.description) < MaxFormLen
      [] a.input_form.current_field = "DueDate" -> Len(a.input_form.due_date) < MaxFormLen
      [] OTHER -> TRUE

\* the App as run_app enters its loop: load_todos has returned the three
\* todos of the service
LoadedApp ==
    LET began == load_todos_begin(App_new)
    IN  load_todos_resume(began.app, Head(began.call), OkTodos(<<TodoA, TodoB, TodoC>>))

InitForm ==
    /\ app = LoadedApp
    /\ pending = <<>>
    /\ pc = "form"
    /\ frame = None
    /\ clock = 0
    /\ utc_offset \in UtcOffsets
    /\ widget = TodoListWidget_new(<<>>)

\* handle_key for `key`, which returns without awaiting
FormKey(key) ==
    /\ handle_key(app, key).call = <<>>
    /\ app' = handle_key(app, key).app
    /\ pc' = key.code
    /\ UNCHANGED <<pending, frame, clock, utc_offset, widget>>

FormKeyNormal ==
    /\ app.input_mode = "Normal"
    /\ \E key \in FormNormalKeys : FormKey(key)

FormKeyEditing ==
    /\ app.input_mode = "Editing"
    /\ \E key \in FormEditingKeys(app) :
          /\ key.code = "Char" => FormRoom(app)
          /\ FormKey(key)

NextForm == FormKeyNormal \/ FormKeyEditing

SpecForm == InitForm /\ [][NextForm]_vars

----------------------------------------------------------------------------
(* The due date: a form holding a title and a due-date buffer drawn from
   DueBuffers is committed with Enter on the AddTodo or the EditTodo screen,
   which runs InputForm::parse_due_date on the buffer and either issues the
   call carrying the timestamp or shows the error. *)

DueYears ==
    {<<"2", "0", "2", "4">>,
     <<"2", "0", "2", "3">>,
     <<"1", "9", "9", "9">>}
DueMonths ==
    {<<"0", "2">>,
     <<"0", "3">>,
     <<"3">>,
     <<"1", "3">>}
DueDays ==
    {<<"1", "5">>,
     <<"5">>,
     <<"2", "9">>,
     <<"3", "1">>}
DueTimes ==
    {<<>>,
     <<" ", "1", "4", ":", "3", "0", ":", "0", "0">>,
     <<" ", "1", "4", ":", "3", "0">>,
     <<" ", "4", ":", "5", ":", "6">>,
     <<" ", "2", "4", ":", "0", "0", ":", "0", "0">>}

\* other buffers: empty, blank, a letter, a date between blanks, slashes,
\* no separators; two blanks and none between date and time, a blank before
\* a field, second 60 and 61, a pre-populated due date less its last digit
DueOthers ==
    {<<>>,
     <<" ">>,
     <<"a">>,
     <<" ", "2", "0", "2", "4", "-", "0", "3", "-", "1", "5", " ">>,
     <<"2", "0", "2", "4", "/", "0", "3", "/", "1", "5">>,
     <<"2", "0", "2", "4", "0", "3", "1", "5">>,
     <<"2", "0", "2", "4", "-", "0", "3", "-", "1", "5", " ", " ", "1", "4", ":", "3", "0", ":", "0", "0">>,
     <<"2", "0", "2", "4", "-", "0", "3", "-", "1", "5", "1", "4", ":", "3", "0", ":", "0", "0">>,
     <<"2", "0", "2", "4", "-", " ", "0", "3", "-", "1", "5", " ", "1", "4", ":", "3", "0", ":", "0", "0">>,
     <<"2", "0", "2", "4", "-", "0", "3", "-", "1", "5", " ", "2", "3", ":", "5", "9", ":", "6", "0">>,
     <<"2", "0", "2", "4", "-", "0", "3", "-", "1", "5", " ", "2", "3", ":", "5", "9", ":", "6", "1">>,
     <<"2", "0", "2", "4", "-", "0", "3", "-", "1", "5", " ", "1", "5", ":", "3", "0", ":", "0">>}

DueBuffers ==
    {y \o <<"-">> \o m \o <<"-">> \o d \o t :
        y \in DueYears, m \in DueMonths, d \in DueDays, t \in DueTimes}
    \cup DueOthers

InitParse ==
    /\ \E b \in DueBuffers, screen \in {"AddTodo", "EditTodo"} :
          app = [apply_filters([App_new EXCEPT !.todos = <<TodoA, TodoB, TodoC>>])
                    EXCEPT !.current_screen = screen,
                           !.input_mode = "Editing",
                           !.input_form.title = <<"a">>,
                           !.input_form.due_date = b]
    /\ pending = <<>>
    /\ pc = "parse"
    /\ frame = None
    /\ clock = 0
    /\ utc_offset \in UtcOffsets
    /\ widget = TodoListWidget_new(<<>>)

\* Enter: create_todo or update_selected_todo up to its await or its return
ParseCommit ==
    /\ pc = "parse"
    /\ app' = handle_key(app, Key("Enter")).app
    /\ pending' = handle_key(app, Key("Enter")).call
    /\ pc' = "committed"
    /\ UNCHANGED <<frame, clock, utc_offset, widget>>

NextParse == ParseCommit

SpecParse == InitParse /\ [][NextParse]_vars

----------------------------------------------------------------------------
(* Properties *)

\* the same letter up to case, on the alphabet of the model
SameLetter(c, d) == c = d \/ {c, d} \in {{"a", "A"}, {"b", "B"}}

\* q is a case-insensitive substring of s
CaselessSubstring(q, s) ==
    \E k \in 0..(Len(s) - Len(q)) : \A i \in 1..Len(q) : SameLetter(q[i], s[k + i])

\* the filter predicate as the specification words it (section 4.1)
FilterPredicate(a, t) ==
    /\ a.show_all_todos \/ ~t.completed
    /\ \/ a.search_query = <<>>
       \/ CaselessSubstring(a.search_query, t.title)
       \/ IsSome(t.description) /\ CaselessSubstring(a.search_query, Unwrap(t.description))
    /\ a.filter_priority = None \/ t.priority = Unwrap(a.filter_priority)

\* `view` holds exactly the todos of `todos` that satisfy the predicate, in
\* the order of `todos`
IsFilteredView(a, todos, view) ==
    \E f \in [1..Len(view) -> 1..Len(todos)] :
        /\ \A i, j \in 1..Len(view) : i < j => f[i] < f[j]
        /\ \A i \in 1..Len(view) : view[i] = todos[f[i]]
        /\ \A j \in 1..Len(todos) :
              FilterPredicate(a, todos[j]) <=> \E i \in 1..Len(view) : f[i] = j

\* the success message is `prefix` followed by the title of a todo of the
\* model
ShowsSuccess(prefix) ==
    app.success_message \in {Some(prefix \o Display(title)) : title \in {<<"A">>, <<"3">>, <<"a">>}}

\* the App this step leaves with the spinner put back: what the pass of the
\* loop has done to the App apart from its tick
BeforeTick == [app' EXCEPT !.loading_spinner_state = app.loading_spinner_state]

\* the application is idle: run_app waits for the next event, and no text
\* is being captured
Idle == pc = "poll" /\ app.input_mode = "Normal"

\* C1: whenever the application is idle, the filtered view is exactly the
\* todos of the full collection that satisfy the filter predicate under the
\* current filter state (show-completed, priority filter, search query).
\* The code breaks this: a successful toggle patches the view in place and
\* does not recompute it.
C1_FilteredViewCurrent ==
    Idle => IsFilteredView(app, app.todos, app.filtered_todos)

\* C2: the selection is None iff the filtered view is empty, and otherwise
\* it is an index i with 0 <= i < length of the filtered view.
C2_SelectionValid ==
    /\ app.selected_todo = None <=> app.filtered_todos = <<>>
    /\ IsSome(app.selected_todo) => InRange(app.filtered_todos, Unwrap(app.selected_todo))

\* a delete has emptied the view of a collection that is not empty
C2_Witness ==
    /\ ShowsSuccess("Deleted: ")
    /\ app.filtered_todos = <<>>
    /\ app.todos # <<>>
    /\ app.selected_todo = None

\* C3: the screen is AddTodo, EditTodo or Search iff the input mode is
\* Editing, and TodoList, Help, Settings or TodoDetail iff it is Normal.
C3_ScreenModePairs ==
    /\ app.current_screen \in AppScreens
    /\ app.input_mode \in InputModes
    /\ app.current_screen \in {"AddTodo", "EditTodo", "Search"} <=> app.input_mode = "Editing"
    /\ app.current_screen \in {"TodoList", "Help", "Settings", "TodoDetail"}
          <=> app.input_mode = "Normal"

\* the Search screen has been opened and a character typed into the query
C3_Witness ==
    /\ app.current_screen = "Search"
    /\ app.input_mode = "Editing"
    /\ app.search_query # <<>>

\* what a failed or refused operation must leave alone
LocalState(a) ==
    [todos |-> a.todos, filtered_todos |-> a.filtered_todos,
     selected_todo |-> a.selected_todo, show_all_todos |-> a.show_all_todos,
     filter_priority |-> a.filter_priority, search_query |-> a.search_query,
     current_screen |-> a.current_screen, input_mode |-> a.input_mode,
     input_form |-> a.input_form]

\* C4: when the remote call of load, create, update, delete, toggle or
\* search fails, an error message is set, the busy flag ends false, and the
\* collection, filtered view, selection, filter state, screen, input mode
\* and form are as they were before the operation: the step that issues the
\* call changes none of them, and neither does the step that handles the
\* failure.
C4_FailureLeavesState ==
    [][ /\ (pending = <<>> /\ pending' # <<>>) => LocalState(app') = LocalState(app)
        /\ ResolveErr(MaxAppTicks) =>
              /\ LocalState(app') = LocalState(app)
              /\ IsSome(app'.error_message)
              /\ app'.success_message = None
              /\ ~app'.loading ]_vars

\* a toggle has failed: its error message shows, and no todo of the
\* collection the service listed carries a later update
C4_Witness ==
    /\ pc = "poll"
    /\ app.error_message = Some("Unable to update todo status. Please try again.")
    /\ app.todos = <<TodoA, TodoB, TodoC>>
    /\ ~app.loading

\* C5: every operation that sets the busy flag clears it before it returns,
\* on every path, so the flag is false whenever run_app waits for the next
\* event (or has left the loop).
C5_BusyCleared == pc \in {"poll", "done"} => ~app.loading

\* create_todo has returned on a due-date error, after it had set the flag
C5_Witness ==
    /\ pc = "poll"
    /\ app.current_screen = "AddTodo"
    /\ app.error_message = Some(InvalidDateFormat)
    /\ ~app.loading

\* C6: at most one remote operation is in flight; while one is unresolved
\* the only step is its resolution (no key is handled, no tick happens); an
\* operation is issued only when none is unresolved and the busy flag of the
\* previous one is down, and issuing it does not move the spinner.
C6_Serialized ==
    [][ /\ Len(pending') <= 1
        /\ pending # <<>> => pending' = <<>>
        /\ pending' # <<>> =>
              /\ pending = <<>>
              /\ ~app.loading
              /\ pc' = "await"
              /\ app'.loading_spinner_state = app.loading_spinner_state ]_vars

\* a key-triggered operation is in flight after ticks have happened
C6_Witness ==
    /\ pc = "await"
    /\ Len(pending) = 1
    /\ Head(pending).kind = "delete_todo"
    /\ app.loading_spinner_state > 0

\* C7: apply_filters yields exactly the todos t with (show-completed or t
\* not completed) and (query empty or the query is a case-insensitive
\* substring of t's title or description) and (priority filter none or equal
\* to t's priority), in the relative order of the full collection.
C7_ApplyFiltersExact ==
    pc = "apply_filters" => IsFilteredView(app, app.todos, app.filtered_todos)

\* apply_filters has kept one todo and dropped another under an upper-case query
C7_Witness ==
    /\ pc = "apply_filters"
    /\ app.search_query = <<"B">>
    /\ app.filtered_todos # <<>>
    /\ Len(app.filtered_todos) < Len(app.todos)

\* C8: each todo of the filtered view has a todo with the same identifier
\* in the full collection, and every todo of the full collection with that
\* identifier equals it in all fields.
C8_ViewsAgree ==
    \A i \in 1..Len(app.filtered_todos) :
        /\ \E j \in 1..Len(app.todos) : app.todos[j].id = app.filtered_todos[i].id
        /\ \A j \in 1..Len(app.todos) :
              app.todos[j].id = app.filtered_todos[i].id => app.todos[j] = app.filtered_todos[i]

\* an update has succeeded and the patched todo is in the view
C8_Witness ==
    /\ ShowsSuccess("Updated: ")
    /\ \E i \in 1..Len(app.filtered_todos) : app.filtered_todos[i].updated_at > 0

\* Enter on the AddTodo or EditTodo screen: create_todo or update_selected_todo
CommitKey ==
    /\ pc = "poll"
    /\ app.input_mode = "Editing"
    /\ app.current_screen \in {"AddTodo", "EditTodo"}
    /\ Dispatch(Key("Enter"), MaxAppTicks)

\* the commit was refused: no call, an error message, nothing else changed
Refused ==
    /\ pending' = <<>>
    /\ pc' = "poll"
    /\ IsSome(app'.error_message)
    /\ ~app'.loading
    /\ LocalState(app') = LocalState(app)

TitleBlank(form) == \A i \in 1..Len(form.title) : form.title[i] = " "

IsDigits(s) == \A i \in 1..Len(s) : s[i] \in DigitChars

\* b is YYYY-MM-DD, fixed width, and names a day of the calendar
DateForm(b) ==
    /\ Len(b) = 10
    /\ IsDigits(SubSeq(b, 1, 4)) /\ b[5] = "-"
    /\ IsDigits(SubSeq(b, 6, 7)) /\ b[8] = "-"
    /\ IsDigits(SubSeq(b, 9, 10))
    /\ DecValue(SubSeq(b, 6, 7)) \in 1..12
    /\ DecValue(SubSeq(b, 9, 10)) \in
          1..DaysInMonth(DecValue(SubSeq(b, 1, 4)), DecValue(SubSeq(b, 6, 7)))

\* t is HH:MM:SS, fixed width, and names a time of the day
TimeForm(t) ==
    /\ Len(t) = 8
    /\ IsDigits(SubSeq(t, 1, 2)) /\ t[3] = ":"
    /\ IsDigits(SubSeq(t, 4, 5)) /\ t[6] = ":"
    /\ IsDigits(SubSeq(t, 7, 8))
    /\ DecValue(SubSeq(t, 1, 2)) <= 23
    /\ DecValue(SubSeq(t, 4, 5)) <= 59
    /\ DecValue(SubSeq(t, 7, 8)) <= 59

DateTimeForm(b) ==
    /\ Len(b) = 19
    /\ DateForm(SubSeq(b, 1, 10))
    /\ b[11] = " "
    /\ TimeForm(SubSeq(b, 12, 19))

\* the text is in one of the two accepted formats
MatchesFormat(text) == DateForm(text) \/ DateTimeForm(text)

\* C9: a create or update committed with a title empty after trimming, or
\* with a due-date buffer that is non-empty and matches neither accepted
\* format (YYYY-MM-DD, YYYY-MM-DD HH:MM:SS), issues no remote call, sets an
\* error message and leaves collection, view, selection, screen, mode and
\* form unchanged.  The code issues the call for a pre-populated due date
\* that has lost its last digit (2024-03-15 15:30:0), and for a buffer of
\* blanks.
C9_InvalidFormRefused ==
    [][ ( /\ CommitKey
          /\ \/ TitleBlank(app.input_form)
             \/ /\ app.input_form.due_date # <<>>
                /\ ~MatchesFormat(app.input_form.due_date) )
        => Refused ]_vars

\* C10: the error message and the success message are never both present,
\* and setting either one removes the other.
C10_OneStatusMessage ==
    /\ ~(IsSome(app.error_message) /\ IsSome(app.success_message))
    /\ pc = "show_error" => IsSome(app.error_message) /\ app.success_message = None
    /\ pc = "show_success" => IsSome(app.success_message) /\ app.error_message = None
    /\ pc = "clear_messages" => app.error_message = None /\ app.success_message = None

\* show_error has just set the second of the model's messages
C10_Witness ==
    /\ pc = "show_error"
    /\ app.error_message = Some("second")
    /\ app.success_message = None

\* the selected index of this state is out of bounds for the next view
SelectionOutOfBounds ==
    IsSome(app.selected_todo) /\ Unwrap(app.selected_todo) >= Len(app'.filtered_todos)

\* index 0 of the next view, or None when it is empty
FirstOrNone == IF app'.filtered_todos = <<>> THEN None ELSE Some(0)

\* the awaited call is of this kind and this step is its success
Succeeds(kind) ==
    /\ pc = "await"
    /\ pending # <<>>
    /\ Head(pending).kind = kind
    /\ IsSome(app'.success_message)

\* C11 as stated: whenever the selected index is out of bounds for the new
\* view, the selection becomes index 0 when the new view is non-empty and
\* None when it is empty.  Deleting the last item of a view of three
\* refutes it: the code selects the new last item.
C11_AsStated ==
    [][ SelectionOutOfBounds => app'.selected_todo = FirstOrNone ]_vars

\* C11, amended: when the selected index is out of bounds for the new view,
\* a successful delete selects the last index of the new view (None when it
\* is empty), a successful create selects the new todo where the view holds
\* it (else index 0, None when empty), and reload, search and filter changes
\* select index 0 (None when empty).
C11_SelectionClamped ==
    [][ SelectionOutOfBounds =>
          IF Succeeds("delete_todo")
          THEN app'.selected_todo =
                  IF app'.filtered_todos = <<>> THEN None
                  ELSE Some(Len(app'.filtered_todos) - 1)
          ELSE IF Succeeds("create_todo")
                  /\ IsSome(PositionById(app'.filtered_todos, app'.todos[Len(app'.todos)].id))
          THEN app'.selected_todo =
                  PositionById(app'.filtered_todos, app'.todos[Len(app'.todos)].id)
          ELSE app'.selected_todo = FirstOrNone ]_vars

\* the last of a view of three has been deleted: the new last is selected
C11_Witness ==
    /\ app.success_message = Some("Deleted: a")
    /\ app.filtered_todos = <<TodoA, TodoB>>
    /\ app.todos = <<TodoA, TodoB>>
    /\ app.selected_todo = Some(1)

\* the App has a non-empty view and a valid selection
NavValid(a) ==
    /\ a.filtered_todos # <<>>
    /\ IsSome(a.selected_todo)
    /\ Unwrap(a.selected_todo) \in 0..(Len(a.filtered_todos) - 1)

\* the widget has a non-empty list and a valid selection
WidgetValid(w) ==
    /\ w.todos # <<>>
    /\ IsSome(w.state)
    /\ Unwrap(w.state) \in 0..(Len(w.todos) - 1)

\* C12: on a non-empty view with a valid selection, previous after next and
\* next after previous return to the starting selection; next from the last
\* item selects index 0 and previous from index 0 selects the last item.
\* Both the App and the TodoListWidget behave so.
C12_NextPreviousInverse ==
    [][ /\ (NavNext /\ NavValid(app)) =>
              /\ previous_todo(app') = app
              /\ Unwrap(app.selected_todo) = Len(app.filtered_todos) - 1
                    => app'.selected_todo = Some(0)
        /\ (NavPrevious /\ NavValid(app)) =>
              /\ next_todo(app') = app
              /\ Unwrap(app.selected_todo) = 0
                    => app'.selected_todo = Some(Len(app.filtered_todos) - 1)
        /\ (WidgetNext /\ WidgetValid(widget)) =>
              /\ TodoListWidget_previous(widget') = widget
              /\ Unwrap(widget.state) = Len(widget.todos) - 1
                    => widget'.state = Some(0)
        /\ (WidgetPrevious /\ WidgetValid(widget)) =>
              /\ TodoListWidget_next(widget') = widget
              /\ Unwrap(widget.state) = 0
                    => widget'.state = Some(Len(widget.todos) - 1) ]_vars

\* next has just wrapped from the last of three items to index 0, the widget
\* standing on its last item
C12_Witness ==
    /\ pc = "next_todo"
    /\ Len(app.filtered_todos) = 3
    /\ app.selected_todo = Some(0)
    /\ widget.state = Some(2)

\* C13: on an empty view next and previous are no-ops, however often they
\* are called: the selection stays None and nothing else changes.  The same
\* holds of the widget on an empty list.
C13_EmptyViewNoOp ==
    [][ /\ ((NavNext \/ NavPrevious) /\ app.filtered_todos = <<>>) =>
              /\ app.selected_todo = None
              /\ app' = app
              /\ UNCHANGED <<pending, frame, clock, utc_offset, widget>>
        /\ ((WidgetNext \/ WidgetPrevious) /\ widget.todos = <<>>) =>
              /\ widget.state = None
              /\ widget' = widget
              /\ UNCHANGED <<app, pending, frame, clock, utc_offset>> ]_vars

\* previous was called on an empty view over a non-empty collection
C13_Witness ==
    /\ pc = "previous_todo"
    /\ app.todos # <<>>
    /\ app.filtered_todos = <<>>
    /\ app.selected_todo = None

\* the loop is at event::poll, in Editing mode on one of `screens`, and this
\* step is the handling of Esc
EscOn(screens) ==
    /\ pc = "poll"
    /\ app.input_mode = "Editing"
    /\ app.current_screen \in screens
    /\ Dispatch(Key("Esc"), MaxAppTicks)

\* C14: Esc on the AddTodo or EditTodo screen returns to TodoList in Normal
\* mode with the form reset to its defaults; no remote call is made and the
\* collection, the view and the selection are unchanged.
C14_EscDiscardsForm ==
    [][ EscOn({"AddTodo", "EditTodo"}) =>
          /\ app'.current_screen = "TodoList"
          /\ app'.input_mode = "Normal"
          /\ app'.input_form = InputForm_new
          /\ pending' = <<>>
          /\ pc' = "poll"
          /\ ~app'.loading
          /\ app'.todos = app.todos
          /\ app'.filtered_todos = app.filtered_todos
          /\ app'.selected_todo = app.selected_todo ]_vars

\* a draft with the cursor off the title field is on the EditTodo screen,
\* the loop waiting for a key
C14_Witness ==
    /\ pc = "poll"
    /\ app.current_screen = "EditTodo"
    /\ app.input_mode = "Editing"
    /\ app.input_form.current_field # "Title"
    /\ app.input_form.title # <<>>
    /\ app.input_form.priority # 2
    /\ IsSome(app.selected_todo)

\* C15: Esc on the Search screen returns to TodoList in Normal mode and the
\* search-query buffer is empty afterwards.  The code leaves the typed query
\* in the buffer.
C15_EscClearsQuery ==
    [][ EscOn({"Search"}) =>
          /\ app'.current_screen = "TodoList"
          /\ app'.input_mode = "Normal"
          /\ app'.search_query = <<>> ]_vars

\* the keys with a transition on the TodoList screen in Normal mode
TodoListMapped(key) ==
    \/ key.code \in {"Esc", "Up", "Down", "Enter"}
    \/ IsChar(key, {"q", "r", "n", "a", "e", "h", "?", "s", "/", "f",
                    "1", "2", "3", "0", "v", "k", "j", " ", "d"})

\* the key has no transition for the screen and mode of a
Unmapped(a, key) ==
    IF a.input_mode = "Normal"
    THEN CASE a.current_screen = "TodoList" -> ~TodoListMapped(key)
           [] a.current_screen \in {"Help", "Settings", "TodoDetail"} ->
                 ~(key.code = "Esc" \/ IsChar(key, {"q"}))
           [] OTHER -> key.code # "Esc"
    ELSE key.code \notin {"Esc", "Enter", "Tab", "BackTab", "Char", "Backspace"}

\* this step is the handling of a key that has no transition
UnmappedKeyStep ==
    /\ pc = "poll"
    /\ \E key \in NormalKeys \cup EditingKeys(app) :
          /\ Unmapped(app, key)
          /\ Dispatch(key, MaxAppTicks)

\* C16 as stated: a key with no defined transition changes no part of the
\* application state, status messages included (the spinner, which the tick
\* of the same pass may advance, set aside).  handle_key clears the status
\* messages before it looks at the key.
C16_AsStated ==
    [][ UnmappedKeyStep => BeforeTick = app /\ pending' = pending ]_vars

\* C16, amended: a key with no defined transition changes nothing but the
\* status messages, which are both cleared; no remote call is made and the
\* loop returns to the poll.  (The tick that may end the same pass of the
\* loop advances the spinner; it is set aside.)
C16_UnmappedKeyOnlyClearsMessages ==
    [][ UnmappedKeyStep =>
          /\ BeforeTick = [app EXCEPT !.error_message = None, !.success_message = None]
          /\ pending' = pending
          /\ pc' = "poll" ]_vars

\* the AddTodo form shows an error message while the loop waits for a key:
\* an unmapped key (Up) pressed here clears it and does nothing else
C16_Witness ==
    /\ pc = "poll"
    /\ app.input_mode = "Editing"
    /\ app.current_screen = "AddTodo"
    /\ IsSome(app.error_message)
    /\ Unmapped(app, Key("Up"))

\* the loop is at event::poll on the Help, Settings or TodoDetail screen
OnInfoScreen ==
    /\ pc = "poll"
    /\ app.current_screen \in {"Help", "Settings", "TodoDetail"}

\* C17: on the Help, Settings and TodoDetail screens Esc and 'q' return to
\* TodoList in Normal mode without setting the quit flag, and every other
\* key leaves the screen, mode, collections and selection unchanged.
C17_OnlyEscAndQLeave ==
    [][ OnInfoScreen =>
          \A key \in NormalKeys :
             Dispatch(key, MaxAppTicks) =>
                IF key.code = "Esc" \/ IsChar(key, {"q"})
                THEN /\ app'.current_screen = "TodoList"
                     /\ app'.input_mode = "Normal"
                     /\ ~app'.should_quit
                     /\ pc' = "poll"
                ELSE /\ app'.current_screen = app.current_screen
                     /\ app'.input_mode = app.input_mode
                     /\ app'.todos = app.todos
                     /\ app'.filtered_todos = app.filtered_todos
                     /\ app'.selected_todo = app.selected_todo
                     /\ pending' = <<>> ]_vars

\* the detail of the second of several todos is on screen, the loop waiting
\* for a key
C17_Witness ==
    /\ pc = "poll"
    /\ app.current_screen = "TodoDetail"
    /\ app.input_mode = "Normal"
    /\ app.selected_todo = Some(1)
    /\ ~app.should_quit

\* the loop is at event::poll on the TodoList screen with nothing selected
NoSelectionOnList ==
    /\ pc = "poll"
    /\ app.current_screen = "TodoList"
    /\ app.input_mode = "Normal"
    /\ app.selected_todo = None

\* toggle, delete, edit and view-detail
ActingKeys == {Key("Enter"), Char(" "), Char("d"), Char("e"), Char("v")}

\* C18: with nothing selected on the TodoList screen, toggle (Enter, Space),
\* delete (d), edit (e) and view-detail (v) are silent no-ops: no remote
\* call, no status message, the busy flag stays down, and screen, mode,
\* collections, selection and form are unchanged.
C18_NoSelectionNoOp ==
    [][ NoSelectionOnList =>
          \A key \in ActingKeys :
             Dispatch(key, MaxAppTicks) =>
                /\ pending' = <<>>
                /\ pc' = "poll"
                /\ app'.error_message = None
                /\ app'.success_message = None
                /\ ~app'.loading
                /\ LocalState(app') = LocalState(app) ]_vars

\* the view is empty over a collection that is not, nothing is selected and
\* the loop waits for a key on the TodoList screen
C18_Witness ==
    /\ pc = "poll"
    /\ app.current_screen = "TodoList"
    /\ app.input_mode = "Normal"
    /\ app.todos # <<>>
    /\ app.filtered_todos = <<>>
    /\ app.selected_todo = None
    /\ clock < MaxClock

\* C19: a failure of a remote operation is never fatal and never retried:
\* the operation returns, the quit flag is not set by it, the loop is back at
\* its poll for the next key with no call outstanding, and a key event
\* issues at most one remote call.
C19_FailureNotFatalNotRetried ==
    [][ /\ ResolveErr(MaxAppTicks) =>
              /\ pc' = "poll"
              /\ pending' = <<>>
              /\ app'.should_quit = app.should_quit
              /\ ~app'.should_quit
              /\ ~app'.loading
              /\ IsSome(app'.error_message)
        /\ pc = "poll" => Len(pending') <= 1
        /\ pc = "await" => pending' = <<>> ]_vars

\* a reload asked for by a key has failed: the error is showing, the todos
\* loaded before are still there and the loop waits for the next key
C19_Witness ==
    /\ pc = "poll"
    /\ app.error_message = Some("Unable to load todos. Please check your connection and try again.")
    /\ app.todos # <<>>
    /\ ~app.should_quit
    /\ pending = <<>>

\* C20: while a remote operation started from the event loop is outstanding
\* there is a render step that observes the busy flag set before the
\* operation resolves; that is, when the operation resolves, the frame last
\* drawn showed loading = true.  run_app draws only at the top of its loop
\* and the handler's await sits inside the loop body, so the frame on screen
\* is the one drawn before the key was read.
C20_BusyObserved ==
    [][ (pc = "await" /\ IsSome(frame) /\ pending # <<>> /\ pending' = <<>>) =>
            Unwrap(frame).loading ]_vars

\* C21: in every reachable state the priority stored in the input form is
\* 1, 2 or 3, whatever was typed, cleared or pre-populated from a todo.
C21_PriorityInRange == app.input_form.priority \in {1, 2, 3}

\* the form was opened on todo A (priority 1) and a digit typed on the
\* priority field has made the priority 3
C21_Witness ==
    /\ pc = "Char"
    /\ app.current_screen = "EditTodo"
    /\ app.selected_todo = Some(0)
    /\ app.input_form.current_field = "Priority"
    /\ app.input_form.priority = 3

\* the characters of a due date: digits, dash, colon, space
DueDateChars == DigitChars \cup {"-", ":", " "}

\* this step is the handling of character c typed on the due-date field
TypedOnDueDate(c) ==
    /\ app.input_mode = "Editing"
    /\ app.current_screen \in {"AddTodo", "EditTodo"}
    /\ app.input_form.current_field = "DueDate"
    /\ FormKey(Char(c))

\* C22: in every reachable state the due-date buffer holds only digits,
\* dashes, colons and spaces; any other character typed on the due-date
\* field leaves the buffer as it was; what Edit writes into the buffer is
\* made of such characters.
C22_DueDateChars ==
    /\ [](\A i \in 1..Len(app.input_form.due_date) :
              app.input_form.due_date[i] \in DueDateChars)
    /\ [][ \A c \in {"a", "/"} :
              TypedOnDueDate(c) => app'.input_form = app.input_form ]_vars

\* Edit has written the due date of todo B into the buffer; it was erased
\* down to its first character, and a character typed since has left it so
C22_Witness ==
    /\ pc = "Char"
    /\ app.current_screen = "EditTodo"
    /\ app.selected_todo = Some(1)
    /\ app.input_form.current_field = "DueDate"
    /\ app.input_form.due_date = <<"2">>

\* C23: is_valid is true exactly when the title holds a character that is
\* not whitespace (false for "" and for blanks only), and it reads nothing
\* but the title.
C23_IsValidIffTitle ==
    /\ is_valid(app.input_form)
          <=> \E i \in 1..Len(app.input_form.title) : app.input_form.title[i] # " "
    /\ is_valid(app.input_form)
          = is_valid([InputForm_new EXCEPT !.title = app.input_form.title])

\* a form with a title of blanks, a description, a changed priority and a
\* due date, the cursor off the title: not valid
C23_Witness ==
    /\ app.current_screen = "AddTodo"
    /\ app.input_form.title = <<" ", " ">>
    /\ app.input_form.description # <<>>
    /\ app.input_form.priority = 3
    /\ app.input_form.due_date # <<>>
    /\ app.input_form.current_field = "DueDate"
    /\ ~is_valid(app.input_form)

\* seconds from the epoch to midnight (UTC) of the date b, and to the time t
\* of a day
MidnightOf(b) ==
    DaysFromCivil(DecValue(SubSeq(b, 1, 4)), DecValue(SubSeq(b, 6, 7)),
                  DecValue(SubSeq(b, 9, 10))) * SecondsPerDay

SecondsOf(t) ==
    DecValue(SubSeq(t, 1, 2)) * 3600 + DecValue(SubSeq(t, 4, 5)) * 60
    + DecValue(SubSeq(t, 7, 8))

\* the three outcomes as the specification words them
DueDateAsSpecified(b) ==
    IF b = <<>> THEN [ok |-> TRUE, value |-> None]
    ELSE IF DateTimeForm(b)
    THEN [ok |-> TRUE,
          value |-> Some(MidnightOf(SubSeq(b, 1, 10)) + SecondsOf(SubSeq(b, 12, 19)))]
    ELSE IF DateForm(b) THEN [ok |-> TRUE, value |-> Some(MidnightOf(b))]
    ELSE [ok |-> FALSE, value |-> None]

\* what the commit made of the buffer: the due date of the call it issued,
\* or the invalid-format error
DueDateCommitted ==
    IF pending # <<>>
    THEN [ok |-> TRUE, value |-> Head(pending).request.due_date]
    ELSE [ok |-> app.error_message # Some(InvalidDateFormat), value |-> None]

\* C24: parse_due_date has exactly three outcomes: no due date for the
\* empty buffer, the exact timestamp for YYYY-MM-DD HH:MM:SS, midnight for
\* YYYY-MM-DD, and the invalid-format error for every other buffer.  The
\* code yields a timestamp for buffers in neither form: fields written with
\* one digit, no blank or several between date and time, a blank before a
\* field, second 60; and it takes a buffer of blanks for the empty one.
C24_ThreeOutcomes ==
    pc = "committed" => DueDateCommitted = DueDateAsSpecified(app.input_form.due_date)

\* the fixed order of the fields
FieldOrder == <<"Title", "Description", "Priority", "DueDate">>

FieldIndex(f) == CHOOSE i \in 1..4 : FieldOrder[i] = f

\* the field k places after f in the cyclic order
FieldAfter(f, k) == FieldOrder[((FieldIndex(f) - 1 + k) % 4) + 1]

\* this step is the handling of `key` on a form
OnForm(key) ==
    /\ app.input_mode = "Editing"
    /\ app.current_screen \in {"AddTodo", "EditTodo"}
    /\ FormKey(key)

\* C25: Tab and Shift-Tab move the cursor one place forward and backward in
\* the cyclic order Title, Description, Priority, DueDate; next_field and
\* previous_field undo each other from every field, four applications of
\* either come back to the start, and neither changes a field's content.
C25_FieldCycle ==
    [][ /\ OnForm(Key("Tab")) =>
              /\ app'.input_form =
                    [app.input_form EXCEPT
                        !.current_field = FieldAfter(app.input_form.current_field, 1)]
              /\ previous_field(app'.input_form) = app.input_form
              /\ next_field(next_field(next_field(app'.input_form))) = app.input_form
        /\ OnForm(Key("BackTab")) =>
              /\ app'.input_form =
                    [app.input_form EXCEPT
                        !.current_field = FieldAfter(app.input_form.current_field, 3)]
              /\ next_field(app'.input_form) = app.input_form
              /\ previous_field(previous_field(previous_field(app'.input_form)))
                    = app.input_form ]_vars

\* Shift-Tab has taken the cursor of a filled form from Title round to
\* DueDate
C25_Witness ==
    /\ pc = "BackTab"
    /\ app.current_screen = "AddTodo"
    /\ app.input_form.current_field = "DueDate"
    /\ app.input_form.title # <<>>
    /\ app.input_form.due_date # <<>>

\* the priority a digit key stands for
PriorityOfDigit(c) == CASE c = "1" -> 1 [] c = "2" -> 2 [] OTHER -> 3

\* C26: a character changes only the field at the cursor and never the
\* cursor: on Title and Description it is appended; on Priority the digits
\* 1, 2, 3 set the priority and every other character leaves the whole form
\* unchanged; the fields not under the cursor keep their values.
C26_CharGoesToCursorField ==
    [][ \A c \in FormChars(app) :
          (pc' = "Char" /\ OnForm(Char(c))) =>
             CASE app.input_form.current_field = "Title" ->
                     app'.input_form =
                        [app.input_form EXCEPT !.title = Append(app.input_form.title, c)]
               [] app.input_form.current_field = "Description" ->
                     app'.input_form =
                        [app.input_form EXCEPT
                            !.description = Append(app.input_form.description, c)]
               [] app.input_form.current_field = "Priority" ->
                     IF c \in {"1", "2", "3"}
                     THEN app'.input_form =
                             [app.input_form EXCEPT !.priority = PriorityOfDigit(c)]
                     ELSE app'.input_form = app.input_form
               [] OTHER ->
                     app'.input_form =
                        [app.input_form EXCEPT !.due_date = app'.input_form.due_date] ]_vars

\* a second character has been typed into the description of a form whose
\* title, priority and due date were already set
C26_Witness ==
    /\ pc = "Char"
    /\ app.input_form.current_field = "Description"
    /\ app.input_form.description = <<"b", "b">>
    /\ app.input_form.title = <<"a", " ">>
    /\ app.input_form.priority = 1
    /\ app.input_form.due_date # <<>>

\* s without its last character; the empty text stays empty
AllButLast(s) == [i \in 1..(Len(s) - 1) |-> s[i]]

\* C27: Backspace removes exactly the last character of the field at the
\* cursor, nothing when that field is empty, and leaves the other fields
\* and the cursor unchanged; on Priority it changes nothing.
C27_BackspaceOnCursorField ==
    [][ (pc' = "Backspace" /\ OnForm(Key("Backspace"))) =>
           CASE app.input_form.current_field = "Title" ->
                   app'.input_form =
                      [app.input_form EXCEPT !.title = AllButLast(app.input_form.title)]
             [] app.input_form.current_field = "Description" ->
                   app'.input_form =
                      [app.input_form EXCEPT
                          !.description = AllButLast(app.input_form.description)]
             [] app.input_form.current_field = "Priority" ->
                   app'.input_form = app.input_form
             [] OTHER ->
                   app'.input_form =
                      [app.input_form EXCEPT
                          !.due_date = AllButLast(app.input_form.due_date)] ]_vars

\* Backspace was pressed on the priority field of a form whose priority is
\* high: it is still high
C27_Witness ==
    /\ pc = "Backspace"
    /\ app.current_screen = "AddTodo"
    /\ app.input_form.current_field = "Priority"
    /\ app.input_form.priority = 3
    /\ app.input_form.title # <<>>

\* the form with empty texts, medium priority and the cursor on the title
DefaultForm ==
    [title |-> <<>>, description |-> <<>>, priority |-> 2, due_date |-> <<>>,
     current_field |-> "Title"]

\* this step is the handling of 'n' or 'a' on the TodoList screen
OpensAdd ==
    /\ app.input_mode = "Normal"
    /\ app.current_screen = "TodoList"
    /\ \E key \in {Char("n"), Char("a")} : FormKey(key)

\* C28: clearing a form, whatever it holds, gives empty title, description
\* and due date, priority 2 and the cursor on Title; 'n' and 'a' on the
\* TodoList enter AddTodo in Editing mode with exactly this form, whatever
\* the form held before (after a search the cursor stands where Tab left it);
\* and Esc, which clears the form, leaves exactly this form.
C28_ClearGivesDefaults ==
    /\ [](InputForm_clear(app.input_form) = DefaultForm)
    /\ [][ OpensAdd =>
              /\ app'.current_screen = "AddTodo"
              /\ app'.input_mode = "Editing"
              /\ app'.input_form = DefaultForm ]_vars
    /\ [][ (pc' = "Esc" /\ OnForm(Key("Esc"))) => app'.input_form = DefaultForm ]_vars

\* a search committed with an empty query has returned to the TodoList and
\* left the cursor of the form on the description: 'n' and 'a' are pressed
\* on this form, which is not the default one
C28_Witness ==
    /\ pc = "Enter"
    /\ app.current_screen = "TodoList"
    /\ app.input_mode = "Normal"
    /\ app.input_form.current_field = "Description"
    /\ app.input_form # DefaultForm

\* the todos of v whose identifier is not id, in the order of v
Without(v, id) == SelectSeq(v, LAMBDA t : t.id # id)

\* C29: after a successful delete of the selected todo no todo with its
\* identifier remains in the collection or in the view, the other todos
\* keep their fields and their order in both, and the selection is valid;
\* deleting the only item of the view leaves the view empty and nothing
\* selected.
C29_DeleteRemovesById ==
    [][ Succeeds("delete_todo") =>
          /\ app'.todos = Without(app.todos, Head(pending).todo_id)
          /\ app'.filtered_todos = Without(app.filtered_todos, Head(pending).todo_id)
          /\ Len(app'.todos) = Len(app.todos) - 1
          /\ Len(app'.filtered_todos) = Len(app.filtered_todos) - 1
          /\ IF app'.filtered_todos = <<>>
             THEN app'.selected_todo = None
             ELSE /\ IsSome(app'.selected_todo)
                  /\ Unwrap(app'.selected_todo) \in 0..(Len(app'.filtered_todos) - 1)
          /\ Len(app.filtered_todos) = 1 =>
                app'.filtered_todos = <<>> /\ app'.selected_todo = None ]_vars

\* the only item of the view has been deleted; the collection still holds
\* the todos the filter had hidden
C29_Witness ==
    /\ pc = "poll"
    /\ ShowsSuccess("Deleted: ")
    /\ app.filtered_todos = <<>>
    /\ app.selected_todo = None
    /\ Len(app.todos) = 2

\* this step is the handling of the filter key c on the TodoList screen
FilterStep(c) ==
    /\ app.input_mode = "Normal"
    /\ app.current_screen = "TodoList"
    /\ pc' = c
    /\ app' = handle_key(app, Char(c)).app
    /\ UNCHANGED pending

\* the filter state after the filter key c
ShowAllAfter(c) == IF c = "f" THEN ~app.show_all_todos ELSE app.show_all_todos

PriorityFilterAfter(c) ==
    CASE c = "f" -> app.filter_priority
      [] c = "0" -> None
      [] c = "1" -> Some(1)
      [] c = "2" -> Some(2)
      [] OTHER -> Some(3)

\* C30: a filter key on the TodoList (f, 1, 2, 3, 0) sets the new filter
\* state, recomputes the view from the full collection under it and selects
\* index 0, or nothing when the view is empty, whatever was selected
\* before; with todos of priorities low, medium and high and the filter set
\* to high the view is exactly the high-priority todo with index 0 selected.
C30_FilterChangeRecomputes ==
    [][ \A c \in {"f", "1", "2", "3", "0"} :
          FilterStep(c) =>
             /\ app'.todos = app.todos
             /\ app'.search_query = app.search_query
             /\ app'.show_all_todos = ShowAllAfter(c)
             /\ app'.filter_priority = PriorityFilterAfter(c)
             /\ IsFilteredView(app', app'.todos, app'.filtered_todos)
             /\ app'.selected_todo =
                   IF app'.filtered_todos = <<>> THEN None ELSE Some(0)
             /\ (c = "3" /\ app.todos = <<TodoA, TodoB, TodoC>>) =>
                   app'.filtered_todos = <<TodoC>> /\ app'.selected_todo = Some(0) ]_vars

\* the filter was set to high over the todos of low, medium and high
\* priority: the view is the high-priority todo, selected
C30_Witness ==
    /\ pc = "3"
    /\ app.todos = <<TodoA, TodoB, TodoC>>
    /\ app.show_all_todos
    /\ app.filter_priority = Some(3)
    /\ app.filtered_todos = <<TodoC>>
    /\ app.selected_todo = Some(0)

\* the todo the service returns to the create call awaited
CreatedTodo == ServerCreate(Head(pending).request, clock + 1)

\* C31: after a successful create the returned todo is appended at the end
\* of the full collection, the filtered view is recomputed, the selection
\* points at the new todo whenever the view holds it (and is otherwise index
\* 0, or None over an empty view), the form is reset to its defaults, the
\* screen is TodoList in Normal mode and a success message is set.
C31_CreateAppendsAndSelects ==
    [][ Succeeds("create_todo") =>
          /\ app'.todos = Append(app.todos, CreatedTodo)
          /\ IsFilteredView(app', app'.todos, app'.filtered_todos)
          /\ IF FilterPredicate(app', CreatedTodo)
             THEN /\ IsSome(app'.selected_todo)
                  /\ InRange(app'.filtered_todos, Unwrap(app'.selected_todo))
                  /\ At(app'.filtered_todos, Unwrap(app'.selected_todo)) = CreatedTodo
             ELSE app'.selected_todo = FirstOrNone
          /\ app'.list_state = app'.selected_todo
          /\ app'.input_form = InputForm_new
          /\ app'.current_screen = "TodoList"
          /\ app'.input_mode = "Normal"
          /\ IsSome(app'.success_message)
          /\ app'.error_message = None
          /\ ~app'.loading
          /\ pending' = <<>> ]_vars

\* a todo has been created over the three of the service: it is the fourth
\* of the collection and the third of the view of pending todos, selected
C31_Witness ==
    /\ pc = "poll"
    /\ app.success_message = Some("Created: a")
    /\ Len(app.todos) = 4
    /\ Len(app.filtered_todos) = 3
    /\ app.selected_todo = Some(2)
    /\ At(app.filtered_todos, 2) = At(app.todos, 3)
    /\ app.input_form = InputForm_new

\* the todos of the collection that pass the show-completed and priority
\* filters, whatever the search query
RegularList(a) ==
    SelectSeq(a.todos,
              LAMBDA t : /\ a.show_all_todos \/ ~t.completed
                         /\ a.filter_priority = None \/ t.priority = Unwrap(a.filter_priority))

\* the loop is at event::poll on the Search screen with a query that is
\* empty after trimming, and this step is the handling of Enter
CommitsBlankSearch ==
    /\ pc = "poll"
    /\ app.input_mode = "Editing"
    /\ app.current_screen = "Search"
    /\ trim(app.search_query) = <<>>
    /\ Dispatch(Key("Enter"), MaxAppTicks)

\* C32: committing a search whose query is empty after trimming issues no
\* remote call, returns to TodoList in Normal mode and shows the regular
\* list: the view holds every todo that passes the show-completed and
\* priority filters, unrestricted by the query.  The code keeps a query of
\* blanks in the buffer and apply_filters restricts the view by it.
C32_BlankSearchShowsRegularList ==
    [][ CommitsBlankSearch =>
          /\ pending' = <<>>
          /\ app'.current_screen = "TodoList"
          /\ app'.input_mode = "Normal"
          /\ app'.todos = app.todos
          /\ app'.filtered_todos = RegularList(app') ]_vars

\* the keys that edit text or move the form cursor
TextKeys(a) == {key \in EditingKeys(a) : key.code \in {"Char", "Backspace", "Tab", "BackTab"}}

\* the loop is at event::poll in Editing mode and this step is the handling
\* of `key`
EditingStep(key) ==
    /\ pc = "poll"
    /\ app.input_mode = "Editing"
    /\ Dispatch(key, MaxAppTicks)

\* no remote call is issued, and the screen, the mode, the collection, the
\* view, the selection and the quit flag are as before
NoNavigation ==
    /\ pending' = pending
    /\ pc' = "poll"
    /\ app'.current_screen = app.current_screen
    /\ app'.input_mode = app.input_mode
    /\ app'.todos = app.todos
    /\ app'.filtered_todos = app.filtered_todos
    /\ app'.selected_todo = app.selected_todo
    /\ app'.list_state = app.list_state
    /\ app'.should_quit = app.should_quit

\* C33 as stated: in Editing mode characters, Backspace, Tab and Shift-Tab
\* are no navigation commands; on the Search screen characters and Backspace
\* change only the search query, on AddTodo and EditTodo the four keys
\* change only the form.  A status message that is showing (after a failed
\* search or a refused commit) is cleared as well.
C33_AsStated ==
    [][ \A key \in TextKeys(app) :
          EditingStep(key) =>
             /\ NoNavigation
             /\ (app.current_screen = "Search" /\ key.code \in {"Char", "Backspace"}) =>
                   BeforeTick = [app EXCEPT !.search_query = app'.search_query]
             /\ app.current_screen \in {"AddTodo", "EditTodo"} =>
                   BeforeTick = [app EXCEPT !.input_form = app'.input_form] ]_vars

\* C33, amended: in Editing mode characters, Backspace, Tab and Shift-Tab
\* are no navigation commands: no remote call, and screen, mode, collection,
\* view, selection and quit flag unchanged.  Besides clearing the status
\* messages, on the Search screen a character is appended to the search
\* query and Backspace removes its last character and nothing else changes;
\* on AddTodo and EditTodo the four keys change only the form; Tab and
\* Shift-Tab on the Search screen move only the form's field cursor.  (The
\* tick that may end the same pass of the loop advances the spinner; it is
\* set aside.)
C33_TextKeysOnlyEdit ==
    [][ \A key \in TextKeys(app) :
          EditingStep(key) =>
             /\ NoNavigation
             /\ (app.current_screen = "Search" /\ key.code = "Char") =>
                   BeforeTick = [clear_messages(app) EXCEPT !.search_query = Append(app.search_query, key.c)]
             /\ (app.current_screen = "Search" /\ key.code = "Backspace") =>
                   BeforeTick = [clear_messages(app) EXCEPT !.search_query = AllButLast(app.search_query)]
             /\ (app.current_screen = "Search" /\ key.code \in {"Tab", "BackTab"}) =>
                   BeforeTick = [clear_messages(app) EXCEPT
                              !.input_form.current_field = app'.input_form.current_field]
             /\ app.current_screen \in {"AddTodo", "EditTodo"} =>
                   BeforeTick = [clear_messages(app) EXCEPT !.input_form = app'.input_form] ]_vars

\* the Search screen shows the error of a failed search over the query
\* typed, the loop waiting for a key: Backspace, Tab and Shift-Tab are
\* pressed here
C33_Witness ==
    /\ pc = "poll"
    /\ app.current_screen = "Search"
    /\ app.input_mode = "Editing"
    /\ app.search_query = <<"a">>
    /\ IsSome(app.error_message)
    /\ app.filtered_todos # <<>>

\* the loop is at event::poll on the TodoList screen in Normal mode and this
\* step is the handling of 'q' or of Esc
QuitKeyStep ==
    /\ pc = "poll"
    /\ app.input_mode = "Normal"
    /\ app.current_screen = "TodoList"
    /\ Dispatch(Char("q"), MaxAppTicks) \/ Dispatch(Key("Esc"), MaxAppTicks)

\* C34: the quit flag becomes true only through 'q' or Esc handled on the
\* TodoList screen in Normal mode, or through the interrupt key; once true
\* it is never reset; and the loop ends with the iteration that set it: the
\* flag is only ever seen set after the loop has ended, and no key is
\* handled after that.
C34_QuitOnlyFromTodoList ==
    /\ [](app.should_quit => pc = "done")
    /\ [][ (~app.should_quit /\ app'.should_quit) => (QuitKeyStep \/ CtrlC(MaxAppTicks)) ]_vars
    /\ [][ app.should_quit => app'.should_quit ]_vars
    /\ [][ pc # "done" ]_vars

\* the loop has ended on the TodoList with the three todos loaded and a
\* priority filter set
C34_Witness ==
    /\ pc = "done"
    /\ app.should_quit
    /\ app.current_screen = "TodoList"
    /\ app.input_mode = "Normal"
    /\ Len(app.todos) = 3
    /\ IsSome(app.filter_priority)

\* the screens that show or edit the selected todo
OnSelectedTodoScreen(a) == a.current_screen \in {"EditTodo", "TodoDetail"}

\* this step issues the update call: the commit of the Edit form
CommitsEdit ==
    /\ app.current_screen = "EditTodo"
    /\ Len(pending') = Len(pending) + 1
    /\ pending'[Len(pending')].kind = "update_todo"

\* C35: while the screen is EditTodo or TodoDetail the selection is present
\* and in range, and no step that stays on the screen changes the selection
\* or the view; the Edit form is pre-populated from the selected todo when
\* the screen opens, and the commit names the identifier of the todo at the
\* selection: the one the form was opened on.
C35_EditKeepsSelection ==
    /\ [](OnSelectedTodoScreen(app) =>
             IsSome(app.selected_todo) /\ InRange(app.filtered_todos, Unwrap(app.selected_todo)))
    /\ [][ (OnSelectedTodoScreen(app) /\ app'.current_screen = app.current_screen) =>
              /\ app'.selected_todo = app.selected_todo
              /\ app'.filtered_todos = app.filtered_todos ]_vars
    /\ [][ (app.current_screen = "TodoList" /\ app'.current_screen = "EditTodo") =>
              /\ app'.selected_todo = app.selected_todo
              /\ app'.filtered_todos = app.filtered_todos
              /\ app'.input_form.title = Unwrap(SelectedTodo(app)).title
              /\ app'.input_form.priority = Unwrap(SelectedTodo(app)).priority ]_vars
    /\ [][ CommitsEdit =>
              /\ pending'[Len(pending')].index = Unwrap(app.selected_todo)
              /\ pending'[Len(pending')].todo_id = Unwrap(SelectedTodo(app)).id ]_vars

\* an edit opened on the second todo of the view has been committed: the
\* update awaited names that todo
C35_Witness ==
    /\ pc = "await"
    /\ app.current_screen = "EditTodo"
    /\ pending # <<>>
    /\ Head(pending).kind = "update_todo"
    /\ app.selected_todo = Some(1)
    /\ Head(pending).todo_id = At(app.filtered_todos, 1).id

\* this step enters the EditTodo screen
EntersEdit == app.current_screen # "EditTodo" /\ app'.current_screen = "EditTodo"

\* C36: whenever the EditTodo screen is entered, the form cursor is on the
\* Title field and the form's title, description and priority are those of
\* the selected todo.  The code does not reset the cursor: a Tab pressed on
\* the Search screen before a committed search leaves it on Description.
C36_EditOpensOnTitle ==
    [][ EntersEdit =>
          /\ app'.input_form.current_field = "Title"
          /\ app'.input_form.title = Unwrap(SelectedTodo(app')).title
          /\ app'.input_form.description =
                (IF IsSome(Unwrap(SelectedTodo(app')).description)
                 THEN Unwrap(Unwrap(SelectedTodo(app')).description) ELSE <<>>)
          /\ app'.input_form.priority = Unwrap(SelectedTodo(app')).priority ]_vars

\* the todo a successful update has put at the index the call names
PatchedTodo == At(app'.filtered_todos, Head(pending).index)

\* the description and the due date the submitted form shows
FormDescription(form) ==
    IF trim(form.description) = <<>> THEN None ELSE Some(trim(form.description))

FormDueDate(form) ==
    IF trim(form.due_date) = <<>> THEN None ELSE parse_due_date(form).value

\* C37: after a successful update, the service leaving every omitted field
\* unchanged, the patched todo of the view and of the collection has the
\* trimmed title and the priority of the submitted form, no description when
\* the description field was emptied and no due date when the due-date
\* buffer was emptied.  The code sends an emptied field as an omitted one,
\* so the todo keeps its former description or due date.
C37_UpdateMatchesForm ==
    [][ Succeeds("update_todo") =>
          /\ PatchedTodo.id = Head(pending).todo_id
          /\ PatchedTodo \in {app'.todos[i] : i \in 1..Len(app'.todos)}
          /\ PatchedTodo.title = trim(app.input_form.title)
          /\ PatchedTodo.priority = app.input_form.priority
          /\ PatchedTodo.description = FormDescription(app.input_form)
          /\ PatchedTodo.due_date = FormDueDate(app.input_form) ]_vars

\* the due-date buffer holds what start_edit_selected_todo wrote for the
\* selected todo, which has a due date: it has not been touched
DueDateUntouched ==
    /\ IsSome(SelectedTodo(app))
    /\ IsSome(Unwrap(SelectedTodo(app)).due_date)
    /\ app.input_form.due_date =
          format_local(Unwrap(Unwrap(SelectedTodo(app)).due_date), utc_offset)

\* C38: committing the Edit form of a todo that has a due date, the
\* due-date buffer untouched, sends the due timestamp the todo had, whatever
\* the local UTC offset.  The code writes the buffer in local time and reads
\* it as UTC: the timestamp sent is off by the local offset.
C38_DueDateRoundTrip ==
    [][ (CommitsEdit /\ DueDateUntouched) =>
          pending'[Len(pending')].request.due_date = Unwrap(SelectedTodo(app)).due_date ]_vars

\* C39: in every reachable state the selected index of the list widget
\* state (list_state) equals the application's selection (selected_todo).
C39_ListStateInSync == app.list_state = app.selected_todo

\* the last todo of a view of two has been deleted and the selection was
\* moved to the new last item, in both places
C39_Witness ==
    /\ pc = "poll"
    /\ app.success_message = Some("Deleted: a")
    /\ Len(app.filtered_todos) = 1
    /\ Len(app.todos) = 2
    /\ app.selected_todo = Some(0)
    /\ app.list_state = Some(0)

====
